---- MODULE Spec2Model ----
(***************************************************************************)
(* State-machine model of the rainbow-hat-rs drivers: the APA102 LED chain *)
(* (src/src/apa102.rs), the HT16K33 display controller and its Alphanum4   *)
(* front-end (src/src/ht16k33.rs, src/src/alphanum4.rs), the lights        *)
(* (src/src/lights.rs), the touch buttons (src/src/touch.rs) and the       *)
(* buzzer (src/src/buzzer.rs).                                             *)
(*                                                                         *)
(* Every method is an operator from the receiver (a record of the struct's *)
(* fields), its arguments and the collaborator's answers to a return       *)
(* record [self, res, val, io]: the receiver after the call, the outcome   *)
(* ("Ok", "Err" or "Panic"), the returned value, and the calls made into   *)
(* the GPIO / I2C collaborator, in order.  A handle field (Option<Box<..>>)*)
(* is TRUE for Some and FALSE for None.  A panic ends the program: no      *)
(* operation follows it.                                                   *)
(***************************************************************************)
EXTENDS Integers, Sequences, FiniteSets, TLC

(* ------------------------------ bounds --------------------------------- *)

\* Brightness arguments (f32) are the rationals n / BDen, n in -1 .. BDen + 1.
BDen == 4

(* ------------------------- program constants --------------------------- *)

GPIO_DAT == 10
GPIO_CLK == 11
GPIO_CS == 8
NUM_PIXELS == 7
BRIGHTNESS == 7

Low == 0
High == 1

(* ----------------------------- helpers --------------------------------- *)

\* The return of a method.
Ret(self, res, val, io) == [self |-> self, res |-> res, val |-> val, io |-> io]

Ok(self, io) == Ret(self, "Ok", "unit", io)

\* The `?` operator on a failed collaborator call: the method returns Err.
Err(self, io) == Ret(self, "Err", "unit", io)

\* assert! failing, Option::unwrap on None, or an index out of bounds.
Panic(self, io) == Ret(self, "Panic", "unit", io)

\* r, and then F on the receiver r left, unless r did not return Ok.
AndThen(r, F(_)) ==
    IF r.res # "Ok" THEN r
    ELSE LET q == F(r.self)
         IN  [self |-> q.self, res |-> q.res, val |-> q.val, io |-> r.io \o q.io]

\* A returned bool, as the val of a return.
BoolVal(b) == IF b THEN "true" ELSE "false"

\* `let _result = f();`: an Err is dropped and execution goes on.
Discarded(r) == IF r.res = "Err" THEN [r EXCEPT !.res = "Ok"] ELSE r

\* Bit n (0 = least significant) of v.
Bit(v, n) == (v \div (2 ^ n)) % 2

\* a | b on u8.
RECURSIVE BitOrFrom(_, _, _)
BitOrFrom(a, b, n) ==
    IF n > 7 THEN 0
    ELSE (IF Bit(a, n) = 1 \/ Bit(b, n) = 1 THEN 2 ^ n ELSE 0) + BitOrFrom(a, b, n + 1)

BitOr(a, b) == BitOrFrom(a, b, 0)

\* f32::round of n / d (d > 0): to the nearest integer, halves away from zero.
F32Round(n, d) ==
    IF n >= 0 THEN (2 * n + d) \div (2 * d) ELSE 0 - ((2 * (0 - n) + d) \div (2 * d))

\* `as u8` of a float holding the integer v: a saturating cast.
AsU8(v) == IF v < 0 THEN 0 ELSE IF v > 255 THEN 255 ELSE v

\* A call of OutputPin::write.
PinWrite(pin, level) == <<"write", pin, level>>

\* Gpio::new()?.get(pin)?.into_output() / into_input(); ok is the collaborator's answer.
PinClaim(pin, dir, ok) == <<"claim", pin, dir, ok>>

(* ------------------------------ APA102 --------------------------------- *)

\* APA102::new
APA102_new ==
    [ pin_dat |-> FALSE, pin_clk |-> FALSE, pin_cs |-> FALSE,
      pixels |-> [i \in 0 .. NUM_PIXELS - 1 |-> [c \in 0 .. 3 |-> 0]],
      brightness |-> BRIGHTNESS,
      simulation |-> FALSE,
      is_setup |-> FALSE ]

\* APA102::setup.  fail is the set of lines whose acquisition the collaborator refuses.
APA102_setup(self, fail) ==
    IF ~self.is_setup THEN
        IF ~self.simulation THEN
            IF GPIO_DAT \in fail THEN Err(self, <<PinClaim(GPIO_DAT, "out", FALSE)>>)
            ELSE LET s1 == [self EXCEPT !.pin_dat = TRUE]
                     io1 == <<PinClaim(GPIO_DAT, "out", TRUE)>>
                 IN  IF GPIO_CLK \in fail
                     THEN Err(s1, io1 \o <<PinClaim(GPIO_CLK, "out", FALSE)>>)
                     ELSE LET s2 == [s1 EXCEPT !.pin_clk = TRUE]
                              io2 == io1 \o <<PinClaim(GPIO_CLK, "out", TRUE)>>
                          IN  IF GPIO_CS \in fail
                              THEN Err(s2, io2 \o <<PinClaim(GPIO_CS, "out", FALSE)>>)
                              ELSE Ok([s2 EXCEPT !.pin_cs = TRUE, !.is_setup = TRUE],
                                      io2 \o <<PinClaim(GPIO_CS, "out", TRUE)>>)
        ELSE Ok([self EXCEPT !.is_setup = TRUE], <<>>)
    ELSE Ok(self, <<>>)

\* APA102::get_bit_at
APA102_get_bit_at(byte, n) == (Bit(byte, n) * (2 ^ n)) # 0

\* APA102::write_byte
\* A faulty variant of APA102_write_byte that scans from the least significant
\* bit: C31_ByteOnTheLines tells it from the code.
APA102_write_byte_lsb_first(self, byte) ==
    IF ~self.simulation THEN
        IF ~self.pin_dat \/ ~self.pin_clk THEN Panic(self, <<>>)
        ELSE Ok(self,
                [k \in 1 .. 24 |->
                    LET i == (k - 1) \div 3
                    IN  CASE (k - 1) % 3 = 0 ->
                                PinWrite(GPIO_DAT,
                                         IF APA102_get_bit_at(byte, i) THEN High ELSE Low)
                          [] (k - 1) % 3 = 1 -> PinWrite(GPIO_CLK, High)
                          [] OTHER -> PinWrite(GPIO_CLK, Low)])
    ELSE Ok(self, <<>>)

APA102_write_byte(self, byte) ==
    IF ~self.simulation THEN
        IF ~self.pin_dat \/ ~self.pin_clk THEN Panic(self, <<>>)
        ELSE Ok(self,
                [k \in 1 .. 24 |->
                    LET i == (k - 1) \div 3
                    IN  CASE (k - 1) % 3 = 0 ->
                                PinWrite(GPIO_DAT,
                                         IF APA102_get_bit_at(byte, 7 - i) THEN High ELSE Low)
                          [] (k - 1) % 3 = 1 -> PinWrite(GPIO_CLK, High)
                          [] OTHER -> PinWrite(GPIO_CLK, Low)])
    ELSE Ok(self, <<>>)

\* `pulses` clock pulses with the data line low: the body of sof and eof.
APA102_pulses(self, pulses) ==
    IF ~self.simulation THEN
        IF ~self.pin_dat \/ ~self.pin_clk THEN Panic(self, <<>>)
        ELSE Ok(self,
                <<PinWrite(GPIO_DAT, Low)>> \o
                [k \in 1 .. 2 * pulses |->
                    PinWrite(GPIO_CLK, IF k % 2 = 1 THEN High ELSE Low)])
    ELSE Ok(self, <<>>)

\* APA102::eof
APA102_eof(self) == APA102_pulses(self, 36)

\* APA102::sof
APA102_sof(self) == APA102_pulses(self, 32)

\* The four bytes of pixel i, as the loop body of show writes them.
\* A faulty variant of APA102_show_pixel that sends the colours as red, green,
\* blue: C2_ShowEmitsFrame tells it from the code.
APA102_show_pixel_rgb(self, i) ==
    AndThen(AndThen(AndThen(
        APA102_write_byte(self, BitOr(224, self.pixels[i][3])),
        LAMBDA s : APA102_write_byte(s, s.pixels[i][0])),
        LAMBDA s : APA102_write_byte(s, s.pixels[i][1])),
        LAMBDA s : APA102_write_byte(s, s.pixels[i][2]))

APA102_show_pixel(self, i) ==
    AndThen(AndThen(AndThen(
        APA102_write_byte(self, BitOr(224, self.pixels[i][3])),
        LAMBDA s : APA102_write_byte(s, s.pixels[i][2])),
        LAMBDA s : APA102_write_byte(s, s.pixels[i][1])),
        LAMBDA s : APA102_write_byte(s, s.pixels[i][0]))

\* The loop of show over the pixels i .. NUM_PIXELS - 1.
RECURSIVE APA102_show_from(_, _)
APA102_show_from(self, i) ==
    IF i >= NUM_PIXELS THEN Ok(self, <<>>)
    ELSE AndThen(APA102_show_pixel(self, i), LAMBDA s : APA102_show_from(s, i + 1))

\* APA102::show
\* A faulty variant of APA102_show that releases chip-select before the end
\* frame: C30_ChipSelectBracketsFrame tells it from the code.
APA102_show_early_release(self, fail) ==
    LET r0 == IF ~self.is_setup THEN Discarded(APA102_setup(self, fail)) ELSE Ok(self, <<>>)
    IN  AndThen(r0, LAMBDA s0 :
            IF ~s0.simulation THEN
                IF ~s0.pin_cs THEN Panic(s0, <<>>)
                ELSE AndThen(AndThen(AndThen(AndThen(
                        Ok(s0, <<PinWrite(GPIO_CS, Low)>>),
                        LAMBDA s : APA102_sof(s)),
                        LAMBDA s : APA102_show_from(s, 0)),
                        LAMBDA s : IF ~s.pin_cs THEN Panic(s, <<>>)
                                   ELSE Ok(s, <<PinWrite(GPIO_CS, High)>>)),
                        LAMBDA s : APA102_eof(s))
            ELSE Ok(s0, <<>>))

APA102_show(self, fail) ==
    LET r0 == IF ~self.is_setup THEN Discarded(APA102_setup(self, fail)) ELSE Ok(self, <<>>)
    IN  AndThen(r0, LAMBDA s0 :
            IF ~s0.simulation THEN
                IF ~s0.pin_cs THEN Panic(s0, <<>>)
                ELSE AndThen(AndThen(AndThen(AndThen(
                        Ok(s0, <<PinWrite(GPIO_CS, Low)>>),
                        LAMBDA s : APA102_sof(s)),
                        LAMBDA s : APA102_show_from(s, 0)),
                        LAMBDA s : APA102_eof(s)),
                        LAMBDA s : IF ~s.pin_cs THEN Panic(s, <<>>)
                                   ELSE Ok(s, <<PinWrite(GPIO_CS, High)>>))
            ELSE Ok(s0, <<>>))

\* APA102::clear
\* A faulty variant of APA102_clear that resets the brightness as well:
\* C12_ClearKeepsBrightness tells it from the code.
APA102_clear_all(self) ==
    Ok([self EXCEPT !.pixels =
            [i \in 0 .. NUM_PIXELS - 1 |-> [c \in 0 .. 3 |-> 0]]], <<>>)

APA102_clear(self) ==
    Ok([self EXCEPT !.pixels =
            [i \in 0 .. NUM_PIXELS - 1 |->
                [c \in 0 .. 3 |-> IF c = 3 THEN self.pixels[i][3] ELSE 0]]], <<>>)

\* APA102::exit
\* A faulty variant of APA102_exit that marks the driver as not set up once the
\* blank frame is out: C5_IsSetupMonotone tells it from the code.
\* A faulty variant of APA102_exit that clears the buffer after the frame is out:
\* C14_ExitBlanksChain tells it from the code.
APA102_exit_show_first(self, fail) ==
    AndThen(APA102_show(self, fail), LAMBDA s : APA102_clear(s))

APA102_exit_teardown(self, fail) ==
    AndThen(AndThen(APA102_clear(self), LAMBDA s : APA102_show(s, fail)),
            LAMBDA s : Ok([s EXCEPT !.is_setup = FALSE], <<>>))

APA102_exit(self, fail) ==
    AndThen(APA102_clear(self), LAMBDA s : APA102_show(s, fail))

\* The stored level: (31.0 * brightness.round()) as u8, brightness = n / BDen.
\* A faulty variant of APA102_level that scales to a whole byte:
\* C11_BrightnessInRange tells it from the code.
APA102_level_byte(n) == AsU8(255 * F32Round(n, BDen))

APA102_level(n) == AsU8(31 * F32Round(n, BDen))

\* APA102::set_brightness
\* A faulty variant of APA102_set_brightness that clamps the brightness to [0, 1]
\* where the code asserts: C10_InvalidBrightnessRejected tells it from the code.
APA102_set_brightness_clamped(self, n) ==
    LET m == IF n < 0 THEN 0 ELSE IF n > BDen THEN BDen ELSE n
    IN  Ok([self EXCEPT !.pixels =
                [i \in 0 .. NUM_PIXELS - 1 |->
                    [self.pixels[i] EXCEPT ![3] = APA102_level(m)]]], <<>>)

APA102_set_brightness(self, n) ==
    IF ~(n >= 0) THEN Panic(self, <<>>)
    ELSE IF ~(n <= BDen) THEN Panic(self, <<>>)
    ELSE Ok([self EXCEPT !.pixels =
                [i \in 0 .. NUM_PIXELS - 1 |->
                    [self.pixels[i] EXCEPT ![3] = APA102_level(n)]]], <<>>)

\* APA102::set_pixel
\* A faulty variant of APA102_set_pixel that ignores an index beyond the chain
\* where the code indexes the buffer: C9_OutOfRangePanics tells it from the code.
\* A faulty variant of APA102_set_pixel that writes the brightness of the whole
\* chain: C13_WritesOnlyItsFields tells it from the code.
APA102_set_pixel_spill(self, x, r, g, b, n) ==
    IF ~(n >= 0) THEN Panic(self, <<>>)
    ELSE IF ~(n <= BDen) THEN Panic(self, <<>>)
    ELSE IF ~(x < NUM_PIXELS) THEN Panic(self, <<>>)
    ELSE Ok([self EXCEPT !.pixels =
                [i \in 0 .. NUM_PIXELS - 1 |->
                    IF i = x
                    THEN [c \in 0 .. 3 |->
                            CASE c = 0 -> r [] c = 1 -> g [] c = 2 -> b
                              [] OTHER -> APA102_level(n)]
                    ELSE [self.pixels[i] EXCEPT ![3] = APA102_level(n)]]], <<>>)

APA102_set_pixel_ignoring(self, x, r, g, b, n) ==
    IF ~(n >= 0) THEN Panic(self, <<>>)
    ELSE IF ~(n <= BDen) THEN Panic(self, <<>>)
    ELSE IF ~(x < NUM_PIXELS) THEN Ok(self, <<>>)
    ELSE Ok([self EXCEPT !.pixels[x] =
                [c \in 0 .. 3 |->
                    CASE c = 0 -> r [] c = 1 -> g [] c = 2 -> b [] OTHER -> APA102_level(n)]],
            <<>>)

APA102_set_pixel(self, x, r, g, b, n) ==
    IF ~(n >= 0) THEN Panic(self, <<>>)
    ELSE IF ~(n <= BDen) THEN Panic(self, <<>>)
    ELSE IF ~(x < NUM_PIXELS) THEN Panic(self, <<>>)
    ELSE Ok([self EXCEPT !.pixels[x] =
                [c \in 0 .. 3 |->
                    CASE c = 0 -> r [] c = 1 -> g [] c = 2 -> b [] OTHER -> APA102_level(n)]],
            <<>>)

\* The loop of set_all over the pixels i .. NUM_PIXELS - 1.
RECURSIVE APA102_set_all_from(_, _, _, _, _, _)
APA102_set_all_from(self, i, r, g, b, n) ==
    IF i >= NUM_PIXELS THEN Ok(self, <<>>)
    ELSE AndThen(APA102_set_pixel(self, i, r, g, b, n),
                 LAMBDA s : APA102_set_all_from(s, i + 1, r, g, b, n))

\* APA102::set_all
APA102_set_all(self, r, g, b, n) == APA102_set_all_from(self, 0, r, g, b, n)

(* ------------------------------ HT16K33 -------------------------------- *)

DEFAULT_ADDRESS == 112
HT16K33_BLINK_CMD == 128
HT16K33_BLINK_DISPLAYON == 1
HT16K33_BLINK_OFF == 0
HT16K33_BLINK_2HZ == 2
HT16K33_BLINK_1HZ == 4
HT16K33_BLINK_HALFHZ == 6
HT16K33_SYSTEM_SETUP == 32
HT16K33_OSCILLATOR == 1
HT16K33_CMD_BRIGHTNESS == 224

\* I2c::new(); ok is the collaborator's answer.
I2cOpen(ok) == <<"i2c_open", ok>>

\* I2c::set_slave_address
I2cAddress(addr, ok) == <<"i2c_address", addr, ok>>

\* I2c::block_write
I2cBlockWrite(command, payload, ok) == <<"i2c_block_write", command, payload, ok>>

\* The collaborator's answers to the display driver are a record fail: whether it
\* refuses I2c::new (open), set_slave_address (address), and the command bytes
\* whose block write it refuses (commands).
NoI2cFail == [open |-> FALSE, address |-> FALSE, commands |-> {}]

\* HT16K33::new
HT16K33_new ==
    [ i2c_address |-> DEFAULT_ADDRESS,
      i2c |-> FALSE,
      buffer |-> [i \in 0 .. 7 |-> 0],
      blink_frequency |-> HT16K33_BLINK_OFF,
      brightness |-> 15,
      simulation |-> FALSE,
      is_setup |-> FALSE ]

\* HT16K33::i2c_block_write
HT16K33_i2c_block_write(self, command, buffer, fail) ==
    IF ~self.simulation THEN
        IF ~self.i2c THEN Panic(self, <<>>)
        ELSE IF command \in fail.commands
             THEN Err(self, <<I2cBlockWrite(command, buffer, FALSE)>>)
             ELSE Ok(self, <<I2cBlockWrite(command, buffer, TRUE)>>)
    ELSE Ok(self, <<>>)

\* HT16K33::set_blink
HT16K33_set_blink(self, frequency, fail) ==
    HT16K33_i2c_block_write(
        [self EXCEPT !.blink_frequency = frequency],
        BitOr(BitOr(HT16K33_BLINK_CMD, HT16K33_BLINK_DISPLAYON), frequency), <<>>, fail)

\* HT16K33::set_brightness
\* A faulty variant of HT16K33_set_brightness that stores the level before it
\* asserts its range: C24_BrightnessValidated tells it from the code.
HT16K33_set_brightness_store_first(self, brightness, fail) ==
    IF ~(brightness <= 15) THEN Panic([self EXCEPT !.brightness = brightness], <<>>)
    ELSE HT16K33_i2c_block_write(
            [self EXCEPT !.brightness = brightness],
            BitOr(HT16K33_CMD_BRIGHTNESS, brightness), <<>>, fail)

HT16K33_set_brightness(self, brightness, fail) ==
    IF ~(brightness <= 15) THEN Panic(self, <<>>)
    ELSE HT16K33_i2c_block_write(
            [self EXCEPT !.brightness = brightness],
            BitOr(HT16K33_CMD_BRIGHTNESS, brightness), <<>>, fail)

\* The bus acquisition of HT16K33::setup: open, address, oscillator on, keep the handle.
HT16K33_acquire(self, fail) ==
    IF fail.open THEN Err(self, <<I2cOpen(FALSE)>>)
    ELSE IF fail.address
    THEN Err(self, <<I2cOpen(TRUE), I2cAddress(self.i2c_address, FALSE)>>)
    ELSE LET osc == BitOr(HT16K33_SYSTEM_SETUP, HT16K33_OSCILLATOR)
             io2 == <<I2cOpen(TRUE), I2cAddress(self.i2c_address, TRUE)>>
         IN  IF osc \in fail.commands
             THEN Err(self, io2 \o <<I2cBlockWrite(osc, <<>>, FALSE)>>)
             ELSE Ok([self EXCEPT !.i2c = TRUE], io2 \o <<I2cBlockWrite(osc, <<>>, TRUE)>>)

\* HT16K33::setup
\* A faulty variant of HT16K33_setup that writes the brightness before the blink
\* frequency: C22_SetupBeforeFirstWrite tells it from the code.
HT16K33_setup_brightness_first(self, fail) ==
    IF ~self.is_setup THEN
        AndThen(AndThen(AndThen(
            IF ~self.simulation THEN HT16K33_acquire(self, fail) ELSE Ok(self, <<>>),
            LAMBDA s : HT16K33_set_brightness(s, s.brightness, fail)),
            LAMBDA s : HT16K33_set_blink(s, s.blink_frequency, fail)),
            LAMBDA s : Ok([s EXCEPT !.is_setup = TRUE], <<>>))
    ELSE Ok(self, <<>>)

HT16K33_setup(self, fail) ==
    IF ~self.is_setup THEN
        AndThen(AndThen(AndThen(
            IF ~self.simulation THEN HT16K33_acquire(self, fail) ELSE Ok(self, <<>>),
            LAMBDA s : HT16K33_set_blink(s, s.blink_frequency, fail)),
            LAMBDA s : HT16K33_set_brightness(s, s.brightness, fail)),
            LAMBDA s : Ok([s EXCEPT !.is_setup = TRUE], <<>>))
    ELSE Ok(self, <<>>)

\* HT16K33::write_display
\* A faulty variant of HT16K33_write_display that sends the buffer from its last
\* byte to its first: C25_WritesWholeBuffer tells it from the code.
HT16K33_write_display_reversed(self, fail) ==
    AndThen(IF ~self.is_setup THEN Discarded(HT16K33_setup(self, fail)) ELSE Ok(self, <<>>),
            LAMBDA s : HT16K33_i2c_block_write(s, 0, [k \in 1 .. 8 |-> s.buffer[8 - k]], fail))

HT16K33_write_display(self, fail) ==
    AndThen(IF ~self.is_setup THEN Discarded(HT16K33_setup(self, fail)) ELSE Ok(self, <<>>),
            LAMBDA s : HT16K33_i2c_block_write(s, 0, [k \in 1 .. 8 |-> s.buffer[k - 1]], fail))

\* HT16K33::clear
HT16K33_clear(self) == Ok([self EXCEPT !.buffer = [i \in 0 .. 7 |-> 0]], <<>>)

(* ------------------------------ Alphanum4 ------------------------------ *)

\* Alphanum4::new
Alphanum4_new == [ht16k33 |-> HT16K33_new]

\* A method of the display controller called through the public field ht16k33.
Alphanum4_ht16k33(self, F(_)) ==
    LET q == F(self.ht16k33)
    IN  Ret([self EXCEPT !.ht16k33 = q.self], q.res, q.val, q.io)

\* A faulty variant of Alphanum4_u16_to_u8 that gives the high byte first:
\* C15_RawDigitRoundTrip tells it from the code.
Alphanum4_u16_to_u8_swapped(num) == <<(num \div 256) % 256, num % 256>>

\* Alphanum4::u16_to_u8
Alphanum4_u16_to_u8(num) == <<num % 256, (num \div 256) % 256>>

\* a <= b on usize; a value of 2^63 or more is written as the negative number
\* with the same bits (so usize::MAX is -1, and -1 + 1 wraps to 0).
UsizeLe(a, b) == IF (a < 0) = (b < 0) THEN a <= b ELSE b < 0

\* Alphanum4::set_digit_raw
Alphanum4_set_digit_raw(self, pos, bitmask) ==
    IF UsizeLe(pos, 3) THEN
        LET digit == Alphanum4_u16_to_u8(bitmask)
        IN  Ok([self EXCEPT !.ht16k33.buffer[pos * 2] = digit[1],
                            !.ht16k33.buffer[pos * 2 + 1] = digit[2]], <<>>)
    ELSE Ok(self, <<>>)

\* A faulty variant of Alphanum4_set_decimal that replaces the high byte by the
\* decimal bit: C16_DecimalBitOnly tells it from the code.
Alphanum4_set_decimal_overwrite(self, pos, decimal) ==
    IF UsizeLe(pos, 3) THEN
        Ok([self EXCEPT !.ht16k33.buffer[pos * 2 + 1] = IF decimal THEN 64 ELSE 0], <<>>)
    ELSE Ok(self, <<>>)

\* Alphanum4::set_decimal
Alphanum4_set_decimal(self, pos, decimal) ==
    IF UsizeLe(pos, 3) THEN
        LET old == self.ht16k33.buffer[pos * 2 + 1]
        IN  IF decimal
            THEN Ok([self EXCEPT !.ht16k33.buffer[pos * 2 + 1] = BitOr(old, 64)], <<>>)
            ELSE Ok([self EXCEPT !.ht16k33.buffer[pos * 2 + 1] = old - 64 * Bit(old, 6)], <<>>)
    ELSE Ok(self, <<>>)

\* DIGIT_VALUES: the pairs (character code, 16-bit segment mask), in table order.
DIGIT_VALUES ==
    <<
      <<32, 0>>, <<33, 6>>, <<34, 544>>, <<35, 4814>>, <<36, 4845>>,
      <<37, 3108>>, <<38, 9053>>, <<39, 1024>>, <<40, 9216>>, <<41, 2304>>,
      <<42, 16320>>, <<43, 4800>>, <<44, 2048>>, <<45, 192>>, <<46, 0>>,
      <<47, 3072>>, <<48, 3135>>, <<49, 6>>, <<50, 219>>, <<51, 143>>,
      <<52, 230>>, <<53, 8297>>, <<54, 253>>, <<55, 7>>, <<56, 255>>,
      <<57, 239>>, <<58, 4608>>, <<59, 2560>>, <<60, 9216>>, <<61, 200>>,
      <<62, 2304>>, <<63, 4227>>, <<64, 699>>, <<65, 247>>, <<66, 4751>>,
      <<67, 57>>, <<68, 4623>>, <<69, 249>>, <<70, 113>>, <<71, 189>>,
      <<72, 246>>, <<73, 4608>>, <<74, 30>>, <<75, 9328>>, <<76, 56>>,
      <<77, 1334>>, <<78, 8502>>, <<79, 63>>, <<80, 243>>, <<81, 8255>>,
      <<82, 8435>>, <<83, 237>>, <<84, 4609>>, <<85, 62>>, <<86, 3120>>,
      <<87, 10294>>, <<88, 11520>>, <<89, 5376>>, <<90, 3081>>, <<91, 57>>,
      <<92, 8448>>, <<93, 15>>, <<94, 3075>>, <<95, 8>>, <<96, 256>>,
      <<97, 4184>>, <<98, 8312>>, <<99, 216>>, <<100, 2190>>, <<101, 2136>>,
      <<102, 113>>, <<103, 1166>>, <<104, 4208>>, <<105, 4096>>, <<106, 14>>,
      <<107, 13824>>, <<108, 48>>, <<109, 4308>>, <<110, 4176>>, <<111, 220>>,
      <<112, 368>>, <<113, 1158>>, <<114, 80>>, <<115, 8328>>, <<116, 120>>,
      <<117, 28>>, <<118, 8196>>, <<119, 10260>>, <<120, 10432>>, <<121, 8204>>,
      <<122, 2120>>, <<123, 2377>>, <<124, 4608>>, <<125, 9353>>, <<126, 1312>>
    >>

\* A faulty variant of Alphanum4_digit_value_get that finds a blank glyph for a
\* character the table lacks: C17_SupportedCharacters tells it from the code.
Alphanum4_digit_value_or_blank(digit) ==
    LET found == {DIGIT_VALUES[k][2] :
                    k \in {j \in DOMAIN DIGIT_VALUES : DIGIT_VALUES[j][1] = digit}}
    IN  IF found = {} THEN {0} ELSE found

\* self.digit_value.get(&digit): the masks the map holds for the character (the
\* empty set is None; the table has no character twice).
Alphanum4_digit_value_get(digit) ==
    {DIGIT_VALUES[k][2] : k \in {j \in DOMAIN DIGIT_VALUES : DIGIT_VALUES[j][1] = digit}}

\* A faulty variant of Alphanum4_set_digit that sets the decimal point before it
\* writes the glyph: C18_GlyphWithDecimal tells it from the code.
Alphanum4_set_digit_decimal_first(self, pos, digit, decimal) ==
    LET found == {DIGIT_VALUES[k][2] :
                    k \in {j \in DOMAIN DIGIT_VALUES : DIGIT_VALUES[j][1] = digit}}
    IN  IF found = {} THEN Panic(self, <<>>)
        ELSE AndThen(Alphanum4_set_decimal(self, pos, decimal),
                     LAMBDA s : Alphanum4_set_digit_raw(s, pos, CHOOSE m \in found : TRUE))

\* A faulty variant of Alphanum4_set_digit that checks the position before it
\* looks the character up: C34_LookupBeforePosition tells it from the code.
Alphanum4_set_digit_position_first(self, pos, digit, decimal) ==
    IF ~UsizeLe(pos, 3) THEN Ok(self, <<>>)
    ELSE LET found == Alphanum4_digit_value_get(digit)
         IN  IF found = {} THEN Panic(self, <<>>)
             ELSE AndThen(Alphanum4_set_digit_raw(self, pos, CHOOSE m \in found : TRUE),
                          LAMBDA s : Alphanum4_set_decimal(s, pos, decimal))

\* Alphanum4::set_digit; the unwrap of the lookup is evaluated before
\* set_digit_raw is called.
Alphanum4_set_digit(self, pos, digit, decimal) ==
    LET found == Alphanum4_digit_value_get(digit)
    IN  IF found = {} THEN Panic(self, <<>>)
        ELSE AndThen(Alphanum4_set_digit_raw(self, pos, CHOOSE m \in found : TRUE),
                     LAMBDA s : Alphanum4_set_decimal(s, pos, decimal))

\* The number of bytes of the UTF-8 encoding of a character.
Utf8Len(c) == IF c < 128 THEN 1 ELSE IF c < 2048 THEN 2 ELSE IF c < 65536 THEN 3 ELSE 4

\* str::len: the length of a text in bytes.
RECURSIVE StrLen(_)
StrLen(value) == IF value = <<>> THEN 0 ELSE Utf8Len(Head(value)) + StrLen(Tail(value))

\* The loop of print_str from character k on, writing at pos.
RECURSIVE Alphanum4_print_from(_, _, _, _)
Alphanum4_print_from(self, value, k, pos) ==
    IF k > Len(value) THEN Ok(self, <<>>)
    ELSE AndThen(Alphanum4_set_digit(self, pos, value[k], FALSE),
                 LAMBDA s : Alphanum4_print_from(s, value, k + 1, pos + 1))

\* A faulty variant of Alphanum4_print_str that blanks the display before it
\* writes the text: C19_PrintLeftJustified tells it from the code.
Alphanum4_print_str_padded(self, value, justify_right, overflow_checks) ==
    IF justify_right /\ StrLen(value) > 4 /\ overflow_checks THEN Panic(self, <<>>)
    ELSE Alphanum4_print_from([self EXCEPT !.ht16k33.buffer = [i \in 0 .. 7 |-> 0]],
                              value, 1, IF justify_right THEN 4 - StrLen(value) ELSE 0)

\* A faulty variant of Alphanum4_print_str that always starts at position 0:
\* C20_PrintRightJustified tells it from the code.
Alphanum4_print_str_left(self, value, justify_right, overflow_checks) ==
    IF justify_right /\ StrLen(value) > 4 /\ overflow_checks THEN Panic(self, <<>>)
    ELSE Alphanum4_print_from(self, value, 1, 0)

\* A faulty variant of Alphanum4_print_str that looks every character up before
\* it writes the first: C35_PrintNotAtomic tells it from the code.
Alphanum4_print_str_atomic(self, value, justify_right, overflow_checks) ==
    IF justify_right /\ StrLen(value) > 4 /\ overflow_checks THEN Panic(self, <<>>)
    ELSE IF \E k \in DOMAIN value : Alphanum4_digit_value_get(value[k]) = {}
    THEN Panic(self, <<>>)
    ELSE Alphanum4_print_from(self, value, 1,
                              IF justify_right THEN 4 - StrLen(value) ELSE 0)

\* Alphanum4::print_str; a text is the sequence of its character codes.
\* 4 - value.len() is a usize subtraction: below zero it panics in a build with
\* overflow checks and wraps in a build without.
Alphanum4_print_str(self, value, justify_right, overflow_checks) ==
    IF justify_right /\ StrLen(value) > 4 /\ overflow_checks THEN Panic(self, <<>>)
    ELSE Alphanum4_print_from(self, value, 1,
                              IF justify_right THEN 4 - StrLen(value) ELSE 0)

\* Alphanum4::show; the controller's Err is converted (From) and returned.
Alphanum4_show(self, fail) ==
    Alphanum4_ht16k33(self, LAMBDA h : HT16K33_write_display(h, fail))

(* ------------------------------- Lights -------------------------------- *)

GPIO_LIGHT_RED == 6
GPIO_LIGHT_GREEN == 19
GPIO_LIGHT_BLUE == 26

\* Light::new
Light_new(bcm_pin) ==
    [bcm_pin |-> bcm_pin, pin |-> FALSE, state |-> FALSE,
     simulation |-> FALSE, is_setup |-> FALSE]

\* Light::setup
Light_setup(self, fail) ==
    IF ~self.is_setup THEN
        IF ~self.simulation THEN
            IF self.bcm_pin \in fail THEN Err(self, <<PinClaim(self.bcm_pin, "out", FALSE)>>)
            ELSE Ok([self EXCEPT !.pin = TRUE, !.is_setup = TRUE],
                    <<PinClaim(self.bcm_pin, "out", TRUE)>>)
        ELSE Ok([self EXCEPT !.is_setup = TRUE], <<>>)
    ELSE Ok(self, <<>>)

\* Light::write
\* A faulty variant of Light_write that drives the line whenever it holds one,
\* simulated or not: C7_SimulationMakesNoCalls tells it from the code.
Light_write_held(self, state, fail) ==
    LET s1 == [self EXCEPT !.state = state]
    IN  AndThen(IF ~s1.is_setup THEN Discarded(Light_setup(s1, fail)) ELSE Ok(s1, <<>>),
                LAMBDA s :
                    IF ~s.simulation \/ s.pin THEN
                        IF ~s.pin THEN Panic(s, <<>>)
                        ELSE Ok(s, <<PinWrite(s.bcm_pin, IF state THEN High ELSE Low)>>)
                    ELSE Ok(s, <<>>))

Light_write(self, state, fail) ==
    LET s1 == [self EXCEPT !.state = state]
    IN  AndThen(IF ~s1.is_setup THEN Discarded(Light_setup(s1, fail)) ELSE Ok(s1, <<>>),
                LAMBDA s :
                    IF ~s.simulation THEN
                        IF ~s.pin THEN Panic(s, <<>>)
                        ELSE Ok(s, <<PinWrite(s.bcm_pin, IF state THEN High ELSE Low)>>)
                    ELSE Ok(s, <<>>))

\* Light::on
Light_on(self, fail) == Light_write(self, TRUE, fail)

\* Light::off
Light_off(self, fail) == Light_write(self, FALSE, fail)

\* Light::toggle
\* A faulty variant of Light_toggle that writes the state it reads:
\* C27_LightStates tells it from the code.
Light_toggle_same(self, fail) == Light_write(self, self.state, fail)

Light_toggle(self, fail) == Light_write(self, ~self.state, fail)

\* Lights::new
Lights_new ==
    [red |-> Light_new(GPIO_LIGHT_RED), green |-> Light_new(GPIO_LIGHT_GREEN),
     blue |-> Light_new(GPIO_LIGHT_BLUE)]

\* A method of one light called through the public field f of the set.
Lights_light(self, f, F(_)) ==
    LET q == F(self[f])
    IN  Ret([self EXCEPT ![f] = q.self], q.res, q.val, q.io)

\* Lights::rgb
Lights_rgb(self, r, g, b, fail) ==
    AndThen(AndThen(
        Lights_light(self, "red", LAMBDA l : Light_write(l, r, fail)),
        LAMBDA s : Lights_light(s, "green", LAMBDA l : Light_write(l, g, fail))),
        LAMBDA s : Lights_light(s, "blue", LAMBDA l : Light_write(l, b, fail)))

\* Lights::all
Lights_all(self, state, fail) ==
    AndThen(AndThen(
        Lights_light(self, "red", LAMBDA l : Light_write(l, state, fail)),
        LAMBDA s : Lights_light(s, "green", LAMBDA l : Light_write(l, state, fail))),
        LAMBDA s : Lights_light(s, "blue", LAMBDA l : Light_write(l, state, fail)))

\* Lights::enable_simulation
Lights_enable_simulation(self) ==
    Ok([self EXCEPT !.red.simulation = TRUE, !.green.simulation = TRUE,
                    !.blue.simulation = TRUE], <<>>)

(* ------------------------------- Buttons ------------------------------- *)

GPIO_TOUCH_A == 21
GPIO_TOUCH_B == 20
GPIO_TOUCH_C == 16

\* A call of InputPin::is_high and the level it found.
PinRead(pin, level) == <<"read", pin, level>>

\* Button::new
Button_new(bcm_pin) ==
    [bcm_pin |-> bcm_pin, pin |-> FALSE, state |-> FALSE,
     simulation |-> FALSE, is_setup |-> FALSE]

\* Button::setup
\* A faulty variant of Button_setup that marks the button as set up before it
\* asks for the line: C32_SetUpMeansHandles tells it from the code.
Button_setup_flag_first(self, fail) ==
    IF ~self.is_setup THEN
        IF ~self.simulation THEN
            IF self.bcm_pin \in fail
            THEN Err([self EXCEPT !.is_setup = TRUE], <<PinClaim(self.bcm_pin, "in", FALSE)>>)
            ELSE Ok([self EXCEPT !.pin = TRUE, !.is_setup = TRUE],
                    <<PinClaim(self.bcm_pin, "in", TRUE)>>)
        ELSE Ok([self EXCEPT !.is_setup = TRUE], <<>>)
    ELSE Ok(self, <<>>)

Button_setup(self, fail) ==
    IF ~self.is_setup THEN
        IF ~self.simulation THEN
            IF self.bcm_pin \in fail THEN Err(self, <<PinClaim(self.bcm_pin, "in", FALSE)>>)
            ELSE Ok([self EXCEPT !.pin = TRUE, !.is_setup = TRUE],
                    <<PinClaim(self.bcm_pin, "in", TRUE)>>)
        ELSE Ok([self EXCEPT !.is_setup = TRUE], <<>>)
    ELSE Ok(self, <<>>)

\* Button::is_pressed; level is what the input line reads.
\* A faulty variant of Button_is_pressed that takes a high line for a touch:
\* C28_PressedIsLineLow tells it from the code.
Button_is_pressed_high(self, level, fail) ==
    AndThen(IF ~self.is_setup THEN Discarded(Button_setup(self, fail)) ELSE Ok(self, <<>>),
            LAMBDA s :
                IF ~s.simulation THEN
                    IF ~s.pin THEN Panic(s, <<>>)
                    ELSE LET s2 == [s EXCEPT !.state = (level = High)]
                         IN  Ret(s2, "Ok", BoolVal(s2.state), <<PinRead(s.bcm_pin, level)>>)
                ELSE Ret(s, "Ok", BoolVal(s.state), <<>>))

Button_is_pressed(self, level, fail) ==
    AndThen(IF ~self.is_setup THEN Discarded(Button_setup(self, fail)) ELSE Ok(self, <<>>),
            LAMBDA s :
                IF ~s.simulation THEN
                    IF ~s.pin THEN Panic(s, <<>>)
                    ELSE LET s2 == [s EXCEPT !.state = ~(level = High)]
                         IN  Ret(s2, "Ok", BoolVal(s2.state), <<PinRead(s.bcm_pin, level)>>)
                ELSE Ret(s, "Ok", BoolVal(s.state), <<>>))

\* Buttons::new
Buttons_new ==
    [a |-> Button_new(GPIO_TOUCH_A), b |-> Button_new(GPIO_TOUCH_B),
     c |-> Button_new(GPIO_TOUCH_C)]

\* A method of one button called through the public field f of the set.
Buttons_button(self, f, F(_)) ==
    LET q == F(self[f])
    IN  Ret([self EXCEPT ![f] = q.self], q.res, q.val, q.io)

\* Buttons::enable_simulation
Buttons_enable_simulation(self) ==
    Ok([self EXCEPT !.a.simulation = TRUE, !.b.simulation = TRUE,
                    !.c.simulation = TRUE], <<>>)

(* ------------------------------- Buzzer -------------------------------- *)

GPIO_BUZZER == 13

\* OutputPin::set_pwm_frequency; frequency in millihertz, duty cycle in hundredths.
PwmSet(pin, frequency, duty, ok) == <<"set_pwm_frequency", pin, frequency, duty, ok>>

\* OutputPin::clear_pwm
PwmClear(pin, ok) == <<"clear_pwm", pin, ok>>

\* thread::sleep for the note's duration.
Sleep(millis) == <<"sleep", millis>>

\* Buzzer::new
Buzzer_new == [pin |-> FALSE, simulation |-> FALSE, is_setup |-> FALSE]

\* Buzzer::setup
Buzzer_setup(self, fail) ==
    IF ~self.is_setup THEN
        IF ~self.simulation THEN
            IF "claim" \in fail THEN Err(self, <<PinClaim(GPIO_BUZZER, "out", FALSE)>>)
            ELSE Ok([self EXCEPT !.pin = TRUE, !.is_setup = TRUE],
                    <<PinClaim(GPIO_BUZZER, "out", TRUE)>>)
        ELSE Ok([self EXCEPT !.is_setup = TRUE], <<>>)
    ELSE Ok(self, <<>>)

\* Buzzer::note; frequency (f64) in millihertz, duration in milliseconds.
\* A faulty variant of Buzzer_note that sets the driver up before it asserts the
\* frequency: C29_InvalidNoteRejected tells it from the code.
Buzzer_note_setup_first(self, frequency, duration, fail) ==
    AndThen(
        IF ~self.is_setup THEN Discarded(Buzzer_setup(self, fail)) ELSE Ok(self, <<>>),
        LAMBDA s :
            IF ~(frequency > 0) THEN Panic(s, <<>>)
            ELSE IF ~s.simulation THEN
                IF ~s.pin THEN Panic(s, <<>>)
                ELSE IF "set_pwm" \in fail
                THEN Err(s, <<PwmSet(GPIO_BUZZER, frequency, 90, FALSE)>>)
                ELSE IF "clear_pwm" \in fail
                THEN Err(s, <<PwmSet(GPIO_BUZZER, frequency, 90, TRUE), Sleep(duration),
                              PwmClear(GPIO_BUZZER, FALSE)>>)
                ELSE Ok(s, <<PwmSet(GPIO_BUZZER, frequency, 90, TRUE), Sleep(duration),
                             PwmClear(GPIO_BUZZER, TRUE)>>)
            ELSE Ok(s, <<>>))

\* A faulty variant of Buzzer_note that clears the PWM before it waits:
\* C33_PwmSetWaitClear tells it from the code.
Buzzer_note_clear_first(self, frequency, duration, fail) ==
    IF ~(frequency > 0) THEN Panic(self, <<>>)
    ELSE AndThen(
            IF ~self.is_setup THEN Discarded(Buzzer_setup(self, fail)) ELSE Ok(self, <<>>),
            LAMBDA s :
                IF ~s.simulation THEN
                    IF ~s.pin THEN Panic(s, <<>>)
                    ELSE IF "set_pwm" \in fail
                    THEN Err(s, <<PwmSet(GPIO_BUZZER, frequency, 90, FALSE)>>)
                    ELSE IF "clear_pwm" \in fail
                    THEN Err(s, <<PwmSet(GPIO_BUZZER, frequency, 90, TRUE),
                                  PwmClear(GPIO_BUZZER, FALSE)>>)
                    ELSE Ok(s, <<PwmSet(GPIO_BUZZER, frequency, 90, TRUE),
                                 PwmClear(GPIO_BUZZER, TRUE), Sleep(duration)>>)
                ELSE Ok(s, <<>>))

Buzzer_note(self, frequency, duration, fail) ==
    IF ~(frequency > 0) THEN Panic(self, <<>>)
    ELSE AndThen(
            IF ~self.is_setup THEN Discarded(Buzzer_setup(self, fail)) ELSE Ok(self, <<>>),
            LAMBDA s :
                IF ~s.simulation THEN
                    IF ~s.pin THEN Panic(s, <<>>)
                    ELSE IF "set_pwm" \in fail
                    THEN Err(s, <<PwmSet(GPIO_BUZZER, frequency, 90, FALSE)>>)
                    ELSE IF "clear_pwm" \in fail
                    THEN Err(s, <<PwmSet(GPIO_BUZZER, frequency, 90, TRUE), Sleep(duration),
                                  PwmClear(GPIO_BUZZER, FALSE)>>)
                    ELSE Ok(s, <<PwmSet(GPIO_BUZZER, frequency, 90, TRUE), Sleep(duration),
                                 PwmClear(GPIO_BUZZER, TRUE)>>)
                ELSE Ok(s, <<>>))

\* 440 * 2 ^ (11 + k / 12) hertz in whole millihertz, k in 0 .. 11: the
\* frequencies of notes 201 .. 212, the highest octave whose millihertz fit the
\* model's integers.
TopOctave(k) ==
    <<901120000, 954703383, 1011473000, 1071618315, 1135340056, 1202850889,
      1274376125, 1350154473, 1430438835, 1515497155, 1605613305, 1701088041>>[k + 1]

\* The k whose TopOctave(k) leaves half a millihertz or more.
TopOctaveRoundsUp == {1, 2, 8, 10}

\* Buzzer::midi_note_to_frequency, to the nearest millihertz:
\* 2 ^ ((n - 69) / 12) * 440. The associated function has no receiver; its
\* result record carries the type's name. Notes above 212 are out of range.
Buzzer_midi_note_to_frequency(note_number) ==
    IF ~(note_number > 0) THEN Panic("Buzzer", <<>>)
    ELSE LET d == note_number - 69
             k == d % 12
             o == (d - k) \div 12
         IN  Ret("Buzzer", "Ok",
                 IF o < 11 THEN (TopOctave(k) + 2 ^ (10 - o)) \div (2 ^ (11 - o))
                 ELSE (TopOctave(k) + (IF k \in TopOctaveRoundsUp THEN 1 ELSE 0)) * (2 ^ (o - 11)),
                 <<>>)

\* Buzzer::midi_note
Buzzer_midi_note(self, note_number, duration, fail) ==
    IF ~(note_number > 0) THEN Panic(self, <<>>)
    ELSE LET freq == Buzzer_midi_note_to_frequency(note_number)
         IN  IF freq.res = "Panic" THEN Panic(self, <<>>)
             ELSE Buzzer_note(self, freq.val, duration, fail)

\* Buzzer::stop
Buzzer_stop(self, fail) ==
    AndThen(IF ~self.is_setup THEN Discarded(Buzzer_setup(self, fail)) ELSE Ok(self, <<>>),
            LAMBDA s :
                IF ~s.simulation THEN
                    IF ~s.pin THEN Panic(s, <<>>)
                    ELSE IF "clear_pwm" \in fail THEN Err(s, <<PwmClear(GPIO_BUZZER, FALSE)>>)
                    ELSE Ok(s, <<PwmClear(GPIO_BUZZER, TRUE)>>)
                ELSE Ok(s, <<>>))

(* --------------------------- the state machine -------------------------- *)

\* The program constructs one driver object, dev, and calls its public
\* operations one after another; the drivers share no state.
Devices == {"apa102", "alphanum4", "lights", "buttons", "buzzer"}

Pins ==
    {GPIO_DAT, GPIO_CLK, GPIO_CS, GPIO_LIGHT_RED, GPIO_LIGHT_GREEN, GPIO_LIGHT_BLUE,
     GPIO_TOUCH_A, GPIO_TOUCH_B, GPIO_TOUCH_C, GPIO_BUZZER}

VARIABLES
    dev,        \* which driver the program drives
    apa102,     \* the APA102 struct
    alphanum4,  \* the Alphanum4 struct, with its HT16K33
    lights,     \* the Lights struct
    buttons,    \* the Buttons struct
    buzzer,     \* the Buzzer struct
    last,       \* the last call: operation, arguments, outcome, calls into the collaborator
    twin,       \* the same calls made on a driver of the same kind in simulation mode
    hw_fault,   \* some collaborator call has failed so far
    hw          \* the collaborator's side: what has been asked of it so far

vars == <<dev, apa102, alphanum4, lights, buttons, buzzer, last, twin, hw_fault, hw>>

\* The simulation field is private: the module's tests set it right after new().
WithSimulation(self, sim) == [self EXCEPT !.simulation = sim]

\* The driver object of kind d, as constructed.
Constructed(d, sim) ==
    CASE d = "apa102" -> WithSimulation(APA102_new, sim)
      [] d = "alphanum4" -> [Alphanum4_new EXCEPT !.ht16k33.simulation = sim]
      [] d = "lights" -> IF sim THEN Lights_enable_simulation(Lights_new).self ELSE Lights_new
      [] d = "buttons" -> IF sim THEN Buttons_enable_simulation(Buttons_new).self
                          ELSE Buttons_new
      [] OTHER -> WithSimulation(Buzzer_new, sim)

\* The sets of lights and buttons get their flag from enable_simulation only.
InitSimulation(d) == IF d \in {"lights", "buttons"} THEN {FALSE} ELSE BOOLEAN

Init ==
    \E d \in Devices : \E sim \in InitSimulation(d) :
        /\ dev = d
        /\ apa102 = Constructed("apa102", d = "apa102" /\ sim)
        /\ alphanum4 = Constructed("alphanum4", d = "alphanum4" /\ sim)
        /\ lights = Constructed("lights", FALSE)
        /\ buttons = Constructed("buttons", FALSE)
        /\ buzzer = Constructed("buzzer", d = "buzzer" /\ sim)
        /\ last = [op |-> "new", args |-> <<>>, res |-> "Ok", val |-> "unit", io |-> <<>>]
        /\ twin = [self |-> Constructed(d, TRUE), res |-> "Ok", val |-> "unit"]
        /\ hw_fault = FALSE
        /\ hw = [tried |-> {}, got |-> {}, i2c_tried |-> FALSE, i2c_got |-> FALSE,
                 oscillator |-> FALSE]

\* The collaborator calls that can fail, and those of io that did.
Fallible(e) ==
    e[1] \in {"claim", "i2c_open", "i2c_address", "i2c_block_write",
              "set_pwm_frequency", "clear_pwm"}

Failed(e) == Fallible(e) /\ ~e[Len(e)]

Some(io, P(_)) == \E k \in DOMAIN io : P(io[k])

IsClaim(e, p) == e[1] = "claim" /\ e[2] = p

IsOpen(e) == e[1] = "i2c_open"

IsOscillator(e) ==
    e[1] = "i2c_block_write" /\ e[2] = BitOr(HT16K33_SYSTEM_SETUP, HT16K33_OSCILLATOR)

\* The collaborator's side after the calls io: the lines whose acquisition was
\* asked for (tried) and granted (got), the same for the bus, and whether the
\* oscillator command was sent.
Counted(h, io) ==
    [tried |-> h.tried \cup {p \in Pins : Some(io, LAMBDA e : IsClaim(e, p))},
     got |-> h.got \cup {p \in Pins : Some(io, LAMBDA e : IsClaim(e, p) /\ e[4])},
     i2c_tried |-> h.i2c_tried \/ Some(io, IsOpen),
     i2c_got |-> h.i2c_got \/ Some(io, LAMBDA e : IsOpen(e) /\ e[2]),
     oscillator |-> h.oscillator \/ Some(io, IsOscillator)]

\* The call op(args) returned r, and t on the twin.  No call follows a panic.
Returned(op, args, r, t) ==
    /\ last.res # "Panic"
    /\ last' = [op |-> op, args |-> args, res |-> r.res, val |-> r.val, io |-> r.io]
    /\ twin' = [self |-> t.self, res |-> t.res, val |-> t.val]
    /\ hw_fault' = (hw_fault \/ \E k \in DOMAIN r.io : Failed(r.io[k]))
    /\ hw' = Counted(hw, r.io)

(* APA102 *)

PixelIndexArgs == {0, NUM_PIXELS - 1, NUM_PIXELS}
ColourArgs == {<<123, 234, 12>>}
BrightnessArgs == (0 - 1) .. (BDen + 1)
\* The collaborator refuses at most one acquisition in a call (setup stops at the
\* first), and is asked for none once the driver is set up or when it is simulated.
\* A line is granted to one holder at a time: while pin_dat keeps the handle of an
\* interrupted setup, the data line is refused.
ApaFails ==
    IF apa102.is_setup \/ apa102.simulation THEN {{}}
    ELSE IF apa102.pin_dat THEN {{GPIO_DAT}}
    ELSE {{}, {GPIO_DAT}, {GPIO_CLK}, {GPIO_CS}}

OnApa102(op, args, r, t) ==
    /\ dev = "apa102"
    /\ apa102' = r.self
    /\ Returned(op, args, r, t)
    /\ UNCHANGED <<dev, alphanum4, lights, buttons, buzzer>>

Apa102Setup ==
    \E fail \in ApaFails :
        /\ OnApa102("APA102::setup", <<>>, APA102_setup(apa102, fail),
                 APA102_setup(twin.self, {}))

Apa102Show ==
    \E fail \in ApaFails :
        /\ OnApa102("APA102::show", <<>>, APA102_show(apa102, fail), APA102_show(twin.self, {}))

Apa102Exit ==
    \E fail \in ApaFails :
        /\ OnApa102("APA102::exit", <<>>, APA102_exit(apa102, fail), APA102_exit(twin.self, {}))

Apa102Clear ==
    /\ OnApa102("APA102::clear", <<>>, APA102_clear(apa102), APA102_clear(twin.self))

Apa102SetBrightness ==
    \E n \in BrightnessArgs :
        /\ OnApa102("APA102::set_brightness", <<n>>, APA102_set_brightness(apa102, n),
                 APA102_set_brightness(twin.self, n))

Apa102SetPixel ==
    \E x \in PixelIndexArgs : \E c \in ColourArgs : \E n \in BrightnessArgs :
        /\ OnApa102("APA102::set_pixel", <<x, c[1], c[2], c[3], n>>,
                 APA102_set_pixel(apa102, x, c[1], c[2], c[3], n),
                 APA102_set_pixel(twin.self, x, c[1], c[2], c[3], n))

Apa102SetAll ==
    \E c \in ColourArgs : \E n \in BrightnessArgs :
        /\ OnApa102("APA102::set_all", <<c[1], c[2], c[3], n>>,
                 APA102_set_all(apa102, c[1], c[2], c[3], n),
                 APA102_set_all(twin.self, c[1], c[2], c[3], n))

(* HT16K33 and Alphanum4 *)

BlinkArgs == {HT16K33_BLINK_OFF, HT16K33_BLINK_2HZ, 8}
DisplayBrightnessArgs == {0, 15, 16}
PosArgs == {0, 3, 4}
BitmaskArgs == {4609}
\* "T", whose glyph is BitmaskArgs' 4609, and DEL, which has no entry in the
\* character table.
DigitArgs == {84, 127}
\* "T" and "TTTTT".
PrintArgs == {<<84>>, <<84, 84, 84, 84, 84>>}

\* The build profiles that matter to print_str(value, justify_right).
OverflowChecks(value, justify_right) ==
    IF justify_right /\ StrLen(value) > 4 THEN BOOLEAN ELSE {TRUE}

\* The collaborator's possible answers to an operation that may write the
\* command bytes cmds.
\* A refused open or address ends the setup: of cmds only the buffer write
\* (command 0) of write_display can follow, through a handle kept from an earlier
\* setup; a simulated driver asks nothing.
I2cFails(cmds) ==
    IF alphanum4.ht16k33.simulation THEN {NoI2cFail}
    ELSE {f \in [open : BOOLEAN, address : BOOLEAN, commands : SUBSET cmds] :
            /\ f.open \/ f.address =>
                    /\ ~alphanum4.ht16k33.is_setup
                    /\ f.commands \subseteq (IF alphanum4.ht16k33.i2c THEN {0} ELSE {})
            /\ ~(f.open /\ f.address)}

\* The command bytes a setup of h writes.
SetupCommands(h) ==
    IF h.is_setup THEN {}
    ELSE {BitOr(HT16K33_SYSTEM_SETUP, HT16K33_OSCILLATOR),
          BitOr(BitOr(HT16K33_BLINK_CMD, HT16K33_BLINK_DISPLAYON), h.blink_frequency),
          BitOr(HT16K33_CMD_BRIGHTNESS, h.brightness)}

OnAlphanum4(op, args, r, t) ==
    /\ dev = "alphanum4"
    /\ alphanum4' = r.self
    /\ Returned(op, args, r, t)
    /\ UNCHANGED <<dev, apa102, lights, buttons, buzzer>>

Ht16k33Setup ==
    \E fail \in I2cFails(SetupCommands(alphanum4.ht16k33)) :
        /\ OnAlphanum4("HT16K33::setup", <<>>,
            Alphanum4_ht16k33(alphanum4, LAMBDA h : HT16K33_setup(h, fail)),
            Alphanum4_ht16k33(twin.self, LAMBDA h : HT16K33_setup(h, NoI2cFail)))

Ht16k33SetBlink ==
    \E f \in BlinkArgs :
    \E fail \in I2cFails({BitOr(BitOr(HT16K33_BLINK_CMD, HT16K33_BLINK_DISPLAYON), f)}) :
        /\ OnAlphanum4("HT16K33::set_blink", <<f>>,
            Alphanum4_ht16k33(alphanum4, LAMBDA h : HT16K33_set_blink(h, f, fail)),
            Alphanum4_ht16k33(twin.self, LAMBDA h : HT16K33_set_blink(h, f, NoI2cFail)))

Ht16k33SetBrightness ==
    \E b \in DisplayBrightnessArgs :
    \E fail \in I2cFails({BitOr(HT16K33_CMD_BRIGHTNESS, b % 256)}) :
        /\ OnAlphanum4("HT16K33::set_brightness", <<b>>,
            Alphanum4_ht16k33(alphanum4, LAMBDA h : HT16K33_set_brightness(h, b, fail)),
            Alphanum4_ht16k33(twin.self, LAMBDA h : HT16K33_set_brightness(h, b, NoI2cFail)))

Ht16k33WriteDisplay ==
    \E fail \in I2cFails(SetupCommands(alphanum4.ht16k33) \cup {0}) :
        /\ OnAlphanum4("HT16K33::write_display", <<>>,
            Alphanum4_ht16k33(alphanum4, LAMBDA h : HT16K33_write_display(h, fail)),
            Alphanum4_ht16k33(twin.self, LAMBDA h : HT16K33_write_display(h, NoI2cFail)))

Ht16k33Clear ==
    /\ OnAlphanum4("HT16K33::clear", <<>>,
        Alphanum4_ht16k33(alphanum4, LAMBDA h : HT16K33_clear(h)),
        Alphanum4_ht16k33(twin.self, LAMBDA h : HT16K33_clear(h)))

Alphanum4SetDigitRaw ==
    \E pos \in PosArgs : \E m \in BitmaskArgs :
        /\ OnAlphanum4("Alphanum4::set_digit_raw", <<pos, m>>,
            Alphanum4_set_digit_raw(alphanum4, pos, m),
            Alphanum4_set_digit_raw(twin.self, pos, m))

Alphanum4SetDecimal ==
    \E pos \in PosArgs : \E d \in BOOLEAN :
        /\ OnAlphanum4("Alphanum4::set_decimal", <<pos, d>>,
            Alphanum4_set_decimal(alphanum4, pos, d),
            Alphanum4_set_decimal(twin.self, pos, d))

Alphanum4SetDigit ==
    \E pos \in PosArgs : \E c \in DigitArgs : \E d \in BOOLEAN :
        /\ OnAlphanum4("Alphanum4::set_digit", <<pos, c, d>>,
            Alphanum4_set_digit(alphanum4, pos, c, d),
            Alphanum4_set_digit(twin.self, pos, c, d))

Alphanum4PrintStr ==
    \E value \in PrintArgs : \E j \in BOOLEAN : \E oc \in OverflowChecks(value, j) :
        /\ OnAlphanum4("Alphanum4::print_str", <<value, j, oc>>,
            Alphanum4_print_str(alphanum4, value, j, oc),
            Alphanum4_print_str(twin.self, value, j, oc))

Alphanum4Show ==
    \E fail \in I2cFails(SetupCommands(alphanum4.ht16k33) \cup {0}) :
        /\ OnAlphanum4("Alphanum4::show", <<>>,
            Alphanum4_show(alphanum4, fail), Alphanum4_show(twin.self, NoI2cFail))

(* Lights *)

LightFields == {"red"}
LightFails == {{}, {GPIO_LIGHT_RED}, {GPIO_LIGHT_GREEN}, {GPIO_LIGHT_BLUE}}

\* The answers to a call on the light f: its line is asked for in a lazy setup only.
LightFailsOf(f) ==
    IF lights[f].is_setup \/ lights[f].simulation THEN {{}} ELSE SUBSET {lights[f].bcm_pin}

OnLights(op, args, r, t) ==
    /\ dev = "lights"
    /\ lights' = r.self
    /\ Returned(op, args, r, t)
    /\ UNCHANGED <<dev, apa102, alphanum4, buttons, buzzer>>

LightSetup ==
    \E f \in LightFields : \E fail \in LightFailsOf(f) :
        /\ OnLights("Light::setup", <<f>>,
            Lights_light(lights, f, LAMBDA l : Light_setup(l, fail)),
            Lights_light(twin.self, f, LAMBDA l : Light_setup(l, {})))

LightOn ==
    \E f \in LightFields : \E fail \in LightFailsOf(f) :
        /\ OnLights("Light::on", <<f>>,
            Lights_light(lights, f, LAMBDA l : Light_on(l, fail)),
            Lights_light(twin.self, f, LAMBDA l : Light_on(l, {})))

LightOff ==
    \E f \in LightFields : \E fail \in LightFailsOf(f) :
        /\ OnLights("Light::off", <<f>>,
            Lights_light(lights, f, LAMBDA l : Light_off(l, fail)),
            Lights_light(twin.self, f, LAMBDA l : Light_off(l, {})))

LightToggle ==
    \E f \in LightFields : \E fail \in LightFailsOf(f) :
        /\ OnLights("Light::toggle", <<f>>,
            Lights_light(lights, f, LAMBDA l : Light_toggle(l, fail)),
            Lights_light(twin.self, f, LAMBDA l : Light_toggle(l, {})))

LightWrite ==
    \E f \in LightFields : \E st \in BOOLEAN : \E fail \in LightFailsOf(f) :
        /\ OnLights("Light::write", <<f, st>>,
            Lights_light(lights, f, LAMBDA l : Light_write(l, st, fail)),
            Lights_light(twin.self, f, LAMBDA l : Light_write(l, st, {})))

LightsAll ==
    \E st \in BOOLEAN : \E fail \in LightFails :
        /\ OnLights("Lights::all", <<st>>, Lights_all(lights, st, fail),
                 Lights_all(twin.self, st, {}))

LightsRgb ==
    \E r \in BOOLEAN : \E g \in BOOLEAN : \E b \in BOOLEAN : \E fail \in LightFails :
        /\ OnLights("Lights::rgb", <<r, g, b>>, Lights_rgb(lights, r, g, b, fail),
                 Lights_rgb(twin.self, r, g, b, {}))

LightsEnableSimulation ==
    /\ OnLights("Lights::enable_simulation", <<>>, Lights_enable_simulation(lights),
             Lights_enable_simulation(twin.self))

(* Buttons *)

ButtonFields == {"a", "c"}

\* The answers to a call on the button f: its line is asked for in a lazy setup only.
ButtonFailsOf(f) ==
    IF buttons[f].is_setup \/ buttons[f].simulation THEN {{}}
    ELSE SUBSET {buttons[f].bcm_pin}

OnButtons(op, args, r, t) ==
    /\ dev = "buttons"
    /\ buttons' = r.self
    /\ Returned(op, args, r, t)
    /\ UNCHANGED <<dev, apa102, alphanum4, lights, buzzer>>

ButtonSetup ==
    \E f \in ButtonFields : \E fail \in ButtonFailsOf(f) :
        /\ OnButtons("Button::setup", <<f>>,
            Buttons_button(buttons, f, LAMBDA b : Button_setup(b, fail)),
            Buttons_button(twin.self, f, LAMBDA b : Button_setup(b, {})))

ButtonIsPressed ==
    \E f \in ButtonFields : \E level \in {Low, High} :
    \E fail \in ButtonFailsOf(f) :
        /\ OnButtons("Button::is_pressed", <<f>>,
            Buttons_button(buttons, f, LAMBDA b : Button_is_pressed(b, level, fail)),
            Buttons_button(twin.self, f, LAMBDA b : Button_is_pressed(b, level, {})))

ButtonsEnableSimulation ==
    /\ OnButtons("Buttons::enable_simulation", <<>>, Buttons_enable_simulation(buttons),
              Buttons_enable_simulation(twin.self))

(* Buzzer *)

FrequencyArgs == {0 - 1000, 0, 493000}
NoteArgs == {0, 51, 57, 69, 71, 96, 112}
DurationArgs == {500}
\* The collaborator refuses at most one call of an operation, which ends there.
BuzzerFails ==
    IF buzzer.simulation THEN {{}} ELSE {{}, {"claim"}, {"set_pwm"}, {"clear_pwm"}}

OnBuzzer(op, args, r, t) ==
    /\ dev = "buzzer"
    /\ buzzer' = r.self
    /\ Returned(op, args, r, t)
    /\ UNCHANGED <<dev, apa102, alphanum4, lights, buttons>>

BuzzerSetup ==
    \E fail \in BuzzerFails :
        /\ OnBuzzer("Buzzer::setup", <<>>, Buzzer_setup(buzzer, fail),
                 Buzzer_setup(twin.self, {}))

BuzzerNote ==
    \E fq \in FrequencyArgs : \E d \in DurationArgs : \E fail \in BuzzerFails :
        /\ OnBuzzer("Buzzer::note", <<fq, d>>, Buzzer_note(buzzer, fq, d, fail),
                 Buzzer_note(twin.self, fq, d, {}))

BuzzerMidiNote ==
    \E n \in NoteArgs : \E d \in DurationArgs : \E fail \in BuzzerFails :
        /\ OnBuzzer("Buzzer::midi_note", <<n, d>>, Buzzer_midi_note(buzzer, n, d, fail),
                 Buzzer_midi_note(twin.self, n, d, {}))

BuzzerStop ==
    \E fail \in BuzzerFails :
        /\ OnBuzzer("Buzzer::stop", <<>>, Buzzer_stop(buzzer, fail), Buzzer_stop(twin.self, {}))

Next ==
    \/ Apa102Setup \/ Apa102Show \/ Apa102Exit \/ Apa102Clear
    \/ Apa102SetBrightness \/ Apa102SetPixel \/ Apa102SetAll
    \/ Ht16k33Setup \/ Ht16k33SetBlink \/ Ht16k33SetBrightness
    \/ Ht16k33WriteDisplay \/ Ht16k33Clear
    \/ Alphanum4SetDigitRaw \/ Alphanum4SetDecimal
    \/ Alphanum4SetDigit \/ Alphanum4PrintStr \/ Alphanum4Show
    \/ LightSetup \/ LightOn \/ LightOff \/ LightToggle \/ LightWrite
    \/ LightsAll \/ LightsRgb \/ LightsEnableSimulation
    \/ ButtonSetup \/ ButtonIsPressed \/ ButtonsEnableSimulation
    \/ BuzzerSetup \/ BuzzerNote \/ BuzzerMidiNote \/ BuzzerStop

Spec == Init /\ [][Next]_vars

(* --------------------- the segment buffer operations -------------------- *)

\* The operations of Alphanum4 on the segment buffer read and write nothing but
\* the buffer: SpecDisplay applies each of them once, to every buffer content of
\* BufferContents.  The buffer is a public field (alphanum4.ht16k33.buffer), set
\* here by the caller after new().

\* A blank buffer, a buffer with every segment lit, and a mixed one
\* (37, 74, 111, 148, 185, 222, 3, 40: the decimal bit is set at positions 0 and 2).
BufferContents ==
    {[i \in 0 .. 7 |-> 0], [i \in 0 .. 7 |-> 255], [i \in 0 .. 7 |-> (37 * (i + 1)) % 256]}

DisplayPosArgs == 0 .. 4
RawMaskArgs == {0, 1, 255, 256, 4609, 16384, 32768, 49151, 65535}

\* Character codes: the ASCII range with its two neighbours, and a two-byte one.
CharArgs == 31 .. 127 \cup {233}

\* "", "A", "Hi", "T.9", "TEST", "HELLO", "ABCDEFGHI", "A" DEL "B", "A" e-acute,
\* "TES" DEL, DEL "EST", "HELLO" DEL.
TextArgs ==
    {<<>>, <<65>>, <<72, 105>>, <<84, 46, 57>>, <<84, 69, 83, 84>>,
     <<72, 69, 76, 76, 79>>, <<65, 66, 67, 68, 69, 70, 71, 72, 73>>,
     <<65, 127, 66>>, <<65, 233>>, <<84, 69, 83, 127>>, <<127, 69, 83, 84>>,
     <<72, 69, 76, 76, 79, 127>>}

WithBuffer(self, buf) == [self EXCEPT !.ht16k33.buffer = buf]

DisplayInit ==
    \E buf \in BufferContents :
        /\ dev = "alphanum4"
        /\ apa102 = Constructed("apa102", FALSE)
        /\ alphanum4 = WithBuffer(Constructed("alphanum4", FALSE), buf)
        /\ lights = Constructed("lights", FALSE)
        /\ buttons = Constructed("buttons", FALSE)
        /\ buzzer = Constructed("buzzer", FALSE)
        /\ last = [op |-> "new", args |-> <<>>, res |-> "Ok", val |-> "unit", io |-> <<>>]
        /\ twin = [self |-> WithBuffer(Constructed("alphanum4", TRUE), buf),
                   res |-> "Ok", val |-> "unit"]
        /\ hw_fault = FALSE
        /\ hw = [tried |-> {}, got |-> {}, i2c_tried |-> FALSE, i2c_got |-> FALSE,
                 oscillator |-> FALSE]

\* One call on the buffer as the caller has set it.
OnDisplay(op, args, r, t) ==
    /\ last.op = "new"
    /\ OnAlphanum4(op, args, r, t)

DisplaySetDigitRaw ==
    \E pos \in DisplayPosArgs : \E m \in RawMaskArgs :
        /\ OnDisplay("Alphanum4::set_digit_raw", <<pos, m>>,
                     Alphanum4_set_digit_raw(alphanum4, pos, m),
                     Alphanum4_set_digit_raw(twin.self, pos, m))

DisplaySetDecimal ==
    \E pos \in DisplayPosArgs : \E d \in BOOLEAN :
        /\ OnDisplay("Alphanum4::set_decimal", <<pos, d>>,
                     Alphanum4_set_decimal(alphanum4, pos, d),
                     Alphanum4_set_decimal(twin.self, pos, d))

DisplaySetDigit ==
    \E pos \in DisplayPosArgs : \E c \in CharArgs : \E d \in BOOLEAN :
        /\ OnDisplay("Alphanum4::set_digit", <<pos, c, d>>,
                     Alphanum4_set_digit(alphanum4, pos, c, d),
                     Alphanum4_set_digit(twin.self, pos, c, d))

DisplayPrintStr ==
    \E value \in TextArgs : \E j \in BOOLEAN : \E oc \in OverflowChecks(value, j) :
        /\ OnDisplay("Alphanum4::print_str", <<value, j, oc>>,
                     Alphanum4_print_str(alphanum4, value, j, oc),
                     Alphanum4_print_str(twin.self, value, j, oc))

DisplayNext ==
    \/ DisplaySetDigitRaw \/ DisplaySetDecimal \/ DisplaySetDigit \/ DisplayPrintStr

SpecDisplay == DisplayInit /\ [][DisplayNext]_vars

(* ------------------------- the bytes on the lines ----------------------- *)

\* write_byte and get_bit_at are private to APA102: SpecByte applies each of them
\* once, to every byte, on a chain whose three lines setup() has acquired.

ByteArgs == 0 .. 255
BitIndexArgs == 0 .. 8

\* A call of get_bit_at: the assert on n, then the bit as a returned bool.
APA102_get_bit_at_call(self, byte, n) ==
    IF ~(n < 8) THEN Panic(self, <<>>)
    ELSE Ret(self, "Ok", BoolVal(APA102_get_bit_at(byte, n)), <<>>)

ByteInit ==
    LET r == APA102_setup(APA102_new, {})
    IN  /\ dev = "apa102"
        /\ apa102 = r.self
        /\ alphanum4 = Constructed("alphanum4", FALSE)
        /\ lights = Constructed("lights", FALSE)
        /\ buttons = Constructed("buttons", FALSE)
        /\ buzzer = Constructed("buzzer", FALSE)
        /\ last = [op |-> "APA102::setup", args |-> <<>>, res |-> r.res, val |-> r.val,
                   io |-> r.io]
        /\ twin = [self |-> APA102_setup(Constructed("apa102", TRUE), {}).self,
                   res |-> "Ok", val |-> "unit"]
        /\ hw_fault = FALSE
        /\ hw = Counted([tried |-> {}, got |-> {}, i2c_tried |-> FALSE, i2c_got |-> FALSE,
                         oscillator |-> FALSE], r.io)

\* One call on the chain as setup() left it.
OnByte(op, args, r, t) ==
    /\ last.op = "APA102::setup"
    /\ OnApa102(op, args, r, t)

ByteWrite ==
    \E byte \in ByteArgs :
        /\ OnByte("APA102::write_byte", <<byte>>, APA102_write_byte(apa102, byte),
                  APA102_write_byte(twin.self, byte))

ByteGetBit ==
    \E byte \in ByteArgs : \E n \in BitIndexArgs :
        /\ OnByte("APA102::get_bit_at", <<byte, n>>, APA102_get_bit_at_call(apa102, byte, n),
                  APA102_get_bit_at_call(twin.self, byte, n))

ByteNext == ByteWrite \/ ByteGetBit

SpecByte == ByteInit /\ [][ByteNext]_vars

(* ------------------------------- claims -------------------------------- *)

OnDev(d, ops) == dev = d /\ last.op \in ops

\* The is_setup flags of all the drivers, in a fixed order.
IsSetupFlags ==
    <<apa102.is_setup, alphanum4.ht16k33.is_setup, lights.red.is_setup,
      lights.green.is_setup, lights.blue.is_setup, buttons.a.is_setup,
      buttons.b.is_setup, buttons.c.is_setup, buzzer.is_setup>>

\* round(31 * n / BDen), to the nearest integer: the level the specification asks for.
RoundedLevel(n) == F32Round(31 * n, BDen)

\* The pixels a call of set_pixel / set_all / set_brightness writes.
PixelsWritten ==
    IF last.op = "APA102::set_pixel" THEN {last.args[1]} ELSE 0 .. NUM_PIXELS - 1

\* The brightness argument of a call of set_pixel / set_all / set_brightness.
BrightnessArg == last.args[Len(last.args)]

BrightnessOps == {"APA102::set_pixel", "APA102::set_all", "APA102::set_brightness"}

\* C1: for every brightness n / BDen in [0, 1], set_pixel, set_all and
\* set_brightness store round(31 * brightness) in the brightness field of every
\* pixel they write (0.0 -> 0, 0.25 -> 8, 1.0 -> 31).
C1_StoresRoundedBrightness ==
    OnDev("apa102", BrightnessOps) /\ last.res = "Ok"
        => \A i \in PixelsWritten : apa102.pixels[i][3] = RoundedLevel(BrightnessArg)

(* C2 *)

\* The writes of io to the lines in pins, in order.
WritesTo(io, pins) == SelectSeq(io, LAMBDA e : e[1] = "write" /\ e[2] \in pins)

\* The positions of io, in order, that satisfy P.
Positions(io, P(_)) == SelectSeq([k \in 1 .. Len(io) |-> k], LAMBDA k : P(io[k]))

\* The level of the data line at each rising edge of the clock, in order
\* (2 when the data line was never written before the edge).
SampledBits(io) ==
    LET w == WritesTo(io, {GPIO_DAT, GPIO_CLK})
        rises == Positions(w, LAMBDA e : e = PinWrite(GPIO_CLK, High))
        dats == Positions(w, LAMBDA e : e[2] = GPIO_DAT)
    IN  [n \in 1 .. Len(rises) |->
            LET before == Cardinality({j \in 1 .. Len(dats) : dats[j] < rises[n]})
            IN  IF before = 0 THEN 2 ELSE w[dats[before]][3]]

\* The clock line goes high, low, high, low, ...: whole pulses only.
WholePulses(io) ==
    LET c == WritesTo(io, {GPIO_CLK})
    IN  /\ Len(c) % 2 = 0
        /\ \A k \in 1 .. Len(c) : c[k][3] = (IF k % 2 = 1 THEN High ELSE Low)

\* The byte that eight sampled bits spell, most significant bit first.
ByteAt(bits, from) ==
    128 * bits[from] + 64 * bits[from + 1] + 32 * bits[from + 2] + 16 * bits[from + 3]
    + 8 * bits[from + 4] + 4 * bits[from + 5] + 2 * bits[from + 6] + bits[from + 7]

\* Byte j (0 .. 27) of the frame of a pixel buffer: control, blue, green, red.
FrameByte(pixels, j) ==
    LET px == pixels[j \div 4]
    IN  CASE j % 4 = 0 -> BitOr(224, px[3])
          [] j % 4 = 1 -> px[2]
          [] j % 4 = 2 -> px[1]
          [] OTHER -> px[0]

\* bits is the frame of pixels: 32 low, 28 bytes, 36 low.
IsFrameOf(bits, pixels) ==
    /\ Len(bits) = 32 + 8 * 4 * NUM_PIXELS + 36
    /\ \A k \in 1 .. 32 : bits[k] = Low
    /\ \A j \in 0 .. 4 * NUM_PIXELS - 1 : ByteAt(bits, 32 + 8 * j + 1) = FrameByte(pixels, j)
    /\ \A k \in 1 .. 36 : bits[32 + 8 * 4 * NUM_PIXELS + k] = Low

C2_Frame ==
    OnDev("apa102", {"APA102::show"}) /\ ~apa102.simulation /\ apa102.is_setup
        => /\ last.res = "Ok"
           /\ WholePulses(last.io)
           /\ IsFrameOf(SampledBits(last.io), apa102.pixels)

C2_KeepsBuffer ==
    dev = "apa102" /\ last'.op = "APA102::show" => apa102'.pixels = apa102.pixels

\* C2: in hardware mode with a successful setup every show() emits 32 clock pulses
\* with data low, then for pixel 0 .. 6 the bytes 0b11100000 | brightness, blue,
\* green, red, then 36 clock pulses with data low; show() leaves the pixel buffer
\* as it was, so consecutive calls emit the same frame.
C2_ShowEmitsFrame == [](C2_Frame) /\ [][C2_KeepsBuffer]_vars

\* A show() after the setup was done (no acquisition in this call), of a buffer
\* with a coloured pixel at full brightness.
C2_Witness ==
    /\ OnDev("apa102", {"APA102::show"}) /\ ~apa102.simulation /\ last.res = "Ok"
    /\ last.io[1] = PinWrite(GPIO_CS, Low)
    /\ apa102.pixels[0] # apa102.pixels[1]
    /\ apa102.pixels[NUM_PIXELS - 1][3] = 31 /\ apa102.pixels[NUM_PIXELS - 1][0] = 123

(* C3 *)

\* io holds a refused acquisition: a line not granted, or the bus not opened.
AcquisitionFailed(io) ==
    Some(io, LAMBDA e : e[1] \in {"claim", "i2c_open"} /\ Failed(e))

LazySetupOps ==
    {"APA102::show", "HT16K33::write_display", "Alphanum4::show", "Buzzer::note",
     "Buzzer::stop"}

\* C3: when the acquisition fails during the lazy setup of show, write_display,
\* Alphanum4 show, note or stop, the operation returns an error (not Ok, no panic).
C3_AcquisitionErrorReturned ==
    last.op \in LazySetupOps /\ AcquisitionFailed(last.io) => last.res = "Err"

(* C4 *)

\* The is_setup flag, in the driver d of kind dev, of the object that the call
\* c is made on: the driver itself, or the light or button that c names.
IsSetupOf(d, c) ==
    CASE dev = "apa102" -> d.is_setup
      [] dev = "alphanum4" -> d.ht16k33.is_setup
      [] dev = "lights" ->
            IF c.op \in {"Lights::all", "Lights::rgb", "Lights::enable_simulation", "new"}
            THEN d.red.is_setup /\ d.green.is_setup /\ d.blue.is_setup
            ELSE d[c.args[1]].is_setup
      [] dev = "buttons" ->
            IF c.op \in {"Buttons::enable_simulation", "new"}
            THEN d.a.is_setup /\ d.b.is_setup /\ d.c.is_setup
            ELSE d[c.args[1]].is_setup
      [] OTHER -> d.is_setup

Driver ==
    CASE dev = "apa102" -> apa102
      [] dev = "alphanum4" -> alphanum4
      [] dev = "lights" -> lights
      [] dev = "buttons" -> buttons
      [] OTHER -> buzzer

\* The is_setup flag of the object the last call was made on, after the call.
TargetIsSetup == IsSetupOf(Driver, last)

SelfSetupOps ==
    {"Light::write", "Light::on", "Light::off", "Light::toggle", "Button::is_pressed",
     "Buzzer::note", "Buzzer::midi_note", "Buzzer::stop", "APA102::show",
     "HT16K33::write_display"}

\* C4: a call of write/on/off/toggle, is_pressed, note, midi_note, stop, show or
\* write_display that returns successfully has performed the setup: is_setup is
\* true after it (so it is after the first such call on a fresh driver).
C4_SuccessfulCallHasSetUp ==
    last.op \in SelfSetupOps /\ last.res = "Ok" => TargetIsSetup

(* C5 *)

C5_FalseAtConstruction ==
    last.op = "new" => \A k \in DOMAIN IsSetupFlags : ~IsSetupFlags[k]

C5_NeverReset == \A k \in DOMAIN IsSetupFlags : IsSetupFlags[k] => IsSetupFlags'[k]

\* C5: for every driver is_setup is false after construction and, once true, is
\* never set back to false (so it changes from false to true at most once).
C5_IsSetupMonotone == [](C5_FalseAtConstruction) /\ [][C5_NeverReset]_vars

\* An operation has run on a driver that was set up by an earlier one.
C5_Witness ==
    /\ OnDev("apa102", {"APA102::exit"}) /\ ~apa102.simulation /\ apa102.is_setup
    /\ ~Some(last.io, LAMBDA e : e[1] = "claim")

(* C6 *)

SetupOps == {"APA102::setup", "HT16K33::setup", "Light::setup", "Button::setup",
             "Buzzer::setup"}

C6_Step ==
    /\ \A p \in hw.got : ~Some(last'.io, LAMBDA e : IsClaim(e, p) /\ e[4])
    /\ hw.i2c_got => ~Some(last'.io, LAMBDA e : IsOpen(e) /\ e[2])
    /\ hw.oscillator => ~Some(last'.io, IsOscillator)
    /\ last'.op \notin SetupOps =>
            /\ \A p \in hw.tried : ~Some(last'.io, LAMBDA e : IsClaim(e, p))
            /\ hw.i2c_tried => ~Some(last'.io, IsOpen)
    /\ last'.op \in SetupOps /\ IsSetupOf(Driver, last') => last'.io = <<>>

\* C6: over any sequence of operations, failures included, each line and the bus
\* are acquired at most once and the oscillator command is sent at most once; a
\* setup() after a completed setup does no I/O; an acquisition that failed is not
\* tried again by a later operation.
C6_AcquiredOnce == [][C6_Step]_vars

(* C7 *)

\* The simulation flag of every driver object of the driven device is set.
Simulated ==
    CASE dev = "apa102" -> apa102.simulation
      [] dev = "alphanum4" -> alphanum4.ht16k33.simulation
      [] dev = "lights" ->
            lights.red.simulation /\ lights.green.simulation /\ lights.blue.simulation
      [] dev = "buttons" ->
            buttons.a.simulation /\ buttons.b.simulation /\ buttons.c.simulation
      [] OTHER -> buzzer.simulation

C7_Step ==
    Simulated => /\ last'.io = <<>>
                 /\ last'.op \in SetupOps => TargetIsSetup'

\* C7: while the simulation flag is set no operation calls into the GPIO or I2C
\* collaborator, also when the flag was set after a physical setup; setup() still
\* sets is_setup.
C7_SimulationMakesNoCalls == [][C7_Step]_vars

\* A light is written in simulation mode after its line was physically acquired.
C7_Witness ==
    /\ OnDev("lights", {"Light::write"}) /\ lights.red.simulation
    /\ GPIO_LIGHT_RED \in hw.got /\ lights.red.pin
    /\ lights.red.state /\ last.res = "Ok"

(* C8 *)

\* The in-memory state of a driver of kind dev that the claim compares.
Memory(d) ==
    CASE dev = "apa102" -> <<d.pixels, d.is_setup>>
      [] dev = "alphanum4" ->
            <<d.ht16k33.buffer, d.ht16k33.blink_frequency, d.ht16k33.brightness,
              d.ht16k33.is_setup>>
      [] dev = "lights" ->
            <<d.red.state, d.green.state, d.blue.state,
              d.red.is_setup, d.green.is_setup, d.blue.is_setup>>
      [] dev = "buttons" -> <<d.a.state, d.b.state, d.c.state>>
      [] OTHER -> <<d.is_setup>>

\* C8: the same operations on a simulated driver and on a driver whose hardware
\* calls all succeed leave the same in-memory state and the same outcome after
\* every step.
C8_SimulationEquivalent ==
    dev \in {"apa102", "alphanum4", "lights"} /\ ~hw_fault
        => Memory(Driver) = Memory(twin.self) /\ last.res = twin.res

(* C9 *)

C9_Case ==
    /\ dev = "apa102" /\ last'.op = "APA102::set_pixel"
    /\ last'.args[1] >= NUM_PIXELS /\ last'.args[5] \in 0 .. BDen

\* C9 as claimed: set_pixel with a valid brightness and index >= 7 is silently
\* ignored: it does not fail and leaves the pixel records unchanged.
C9_OutOfRangeIgnored ==
    [][C9_Case => last'.res = "Ok" /\ apa102'.pixels = apa102.pixels]_vars

\* C9 amended: set_pixel with a valid brightness and index >= 7 fails (the
\* out-of-bounds index panics) and leaves all 7 pixel records unchanged.
C9_OutOfRangePanics ==
    [][C9_Case => last'.res = "Panic" /\ apa102'.pixels = apa102.pixels]_vars

C9_Witness ==
    /\ OnDev("apa102", {"APA102::set_pixel"})
    /\ last.args[1] = NUM_PIXELS /\ last.args[5] = BDen /\ last.res = "Panic"
    /\ apa102.pixels[NUM_PIXELS - 1] # apa102.pixels[0]

(* C10 *)

C10_Case ==
    /\ dev = "apa102" /\ last'.op \in BrightnessOps
    /\ last'.args[Len(last'.args)] \notin 0 .. BDen

\* C10: set_pixel, set_all and set_brightness with a brightness below 0.0 or
\* above 1.0 fail and leave the whole pixel buffer as it was before the call.
C10_InvalidBrightnessRejected ==
    [][C10_Case => last'.res = "Panic" /\ apa102'.pixels = apa102.pixels]_vars

C10_Witness ==
    /\ OnDev("apa102", {"APA102::set_all"}) /\ BrightnessArg = BDen + 1
    /\ last.res = "Panic"
    /\ apa102.pixels[0][0] = 123 /\ apa102.pixels[0][3] = 31

(* C11 *)

PixelRange == 0 .. NUM_PIXELS - 1

\* The control byte that the last show() put on the lines for pixel i.
ControlByteSent(i) == ByteAt(SampledBits(last.io), 32 + 32 * i + 1)

\* C11: after any sequence of APA102 operations the stored brightness of each of
\* the 7 pixels is in 0 .. 31, so the control byte 0b11100000 | brightness that
\* show() sends has its top three bits set and its low five bits equal to the
\* stored brightness.
C11_BrightnessInRange ==
    dev = "apa102" =>
        /\ \A i \in PixelRange :
                /\ apa102.pixels[i][3] \in 0 .. 31
                /\ BitOr(224, apa102.pixels[i][3]) = 224 + apa102.pixels[i][3]
        /\ last.op = "APA102::show" /\ last.res = "Ok" /\ ~apa102.simulation =>
                \A i \in PixelRange :
                    /\ ControlByteSent(i) \div 32 = 7
                    /\ ControlByteSent(i) % 32 = apa102.pixels[i][3]

\* A frame was sent for a chain with a pixel at full and a pixel at zero brightness.
C11_Witness ==
    /\ OnDev("apa102", {"APA102::show"}) /\ last.res = "Ok" /\ ~apa102.simulation
    /\ apa102.pixels[NUM_PIXELS - 1][3] = 31 /\ apa102.pixels[0][3] = 0
    /\ ControlByteSent(NUM_PIXELS - 1) = 255 /\ ControlByteSent(0) = 224

(* C12 *)

\* The colour channels of every pixel of buffer px are zero.
ColoursZero(px) == \A i \in PixelRange : \A c \in 0 .. 2 : px[i][c] = 0

\* Two buffers have the same brightness fields.
SameBrightness(px, qx) == \A i \in PixelRange : px[i][3] = qx[i][3]

\* Two buffers have the same colour channels.
SameColours(px, qx) == \A i \in PixelRange : \A c \in 0 .. 2 : px[i][c] = qx[i][c]

C12_Step ==
    dev = "apa102" /\ last'.op = "APA102::clear" =>
        /\ last'.res = "Ok" /\ last'.io = <<>>
        /\ ColoursZero(apa102'.pixels)
        /\ SameBrightness(apa102'.pixels, apa102.pixels)

\* C12: clear() sets red, green and blue of all 7 pixels to 0, leaves every
\* brightness field as it was, and emits nothing on the hardware lines.
C12_ClearKeepsBrightness == [][C12_Step]_vars

\* A set-up hardware driver was cleared; pixel 6 had been given a colour and
\* full brightness by set_pixel, and the brightness is still there.
C12_Witness ==
    /\ OnDev("apa102", {"APA102::clear"}) /\ ~apa102.simulation /\ apa102.is_setup
    /\ apa102.pixels[NUM_PIXELS - 1][3] = 31 /\ apa102.pixels[0][3] = 0
    /\ ColoursZero(apa102.pixels)

(* C13 *)

C13_Step ==
    /\ dev = "apa102" /\ last'.op = "APA102::set_brightness" /\ last'.args[1] \in 0 .. BDen
        => /\ last'.res = "Ok"
           /\ \A i \in PixelRange : apa102'.pixels[i][3] = apa102'.pixels[0][3]
           /\ SameColours(apa102'.pixels, apa102.pixels)
    /\ dev = "apa102" /\ last'.op = "APA102::set_pixel" /\ last'.args[1] \in PixelRange
                     /\ last'.args[5] \in 0 .. BDen
        => /\ last'.res = "Ok"
           /\ \A i \in PixelRange \ {last'.args[1]} : apa102'.pixels[i] = apa102.pixels[i]

\* C13: set_brightness(b) with b in [0, 1] writes one brightness level into all 7
\* pixels and leaves every colour channel unchanged; set_pixel(i, ...) with i in
\* 0 .. 6 changes pixel i only.
C13_WritesOnlyItsFields == [][C13_Step]_vars

\* set_pixel wrote pixel 6 at full brightness while pixel 0 holds a colour at
\* brightness zero.
C13_Witness ==
    /\ OnDev("apa102", {"APA102::set_pixel"}) /\ last.res = "Ok"
    /\ last.args[1] = NUM_PIXELS - 1 /\ last.args[5] = BDen
    /\ apa102.pixels[NUM_PIXELS - 1][3] = 31
    /\ apa102.pixels[0][0] = 123 /\ apa102.pixels[0][3] = 0

(* C14 *)

\* The frame of a successful exit() is the frame of the buffer it leaves.
C14_Frame ==
    OnDev("apa102", {"APA102::exit"}) /\ last.res = "Ok" =>
        /\ ColoursZero(apa102.pixels)
        /\ ~apa102.simulation =>
                /\ WholePulses(last.io)
                /\ IsFrameOf(SampledBits(last.io), apa102.pixels)

C14_Step ==
    dev = "apa102" /\ last'.op = "APA102::exit" /\ last'.res = "Ok" =>
        SameBrightness(apa102'.pixels, apa102.pixels)

\* C14: after exit() returns Ok the colour channels of all 7 pixels are 0, the
\* brightness fields are as before, and in hardware mode the frame emitted is a
\* complete show() frame of the cleared buffer: the buffer is cleared before the
\* frame is emitted.
C14_ExitBlanksChain == [](C14_Frame) /\ [][C14_Step]_vars

\* exit() returned Ok on hardware; pixel 6 had a colour and keeps its brightness.
C14_Witness ==
    /\ OnDev("apa102", {"APA102::exit"}) /\ last.res = "Ok" /\ ~apa102.simulation
    /\ apa102.pixels[NUM_PIXELS - 1][3] = 31 /\ apa102.pixels[0][3] = 0
    /\ Len(last.io) > 0

(* C15 *)

\* The segment buffer of the display.
Buffer == alphanum4.ht16k33.buffer

\* The 16-bit value that buffer buf holds at position pos.
DigitAt(buf, pos) == buf[2 * pos] + 256 * buf[2 * pos + 1]

\* Buffers buf and old agree on the positions in keep.
SamePositions(buf, old, keep) == \A p \in keep : DigitAt(buf, p) = DigitAt(old, p)

C15_Step ==
    dev = "alphanum4" /\ last'.op = "Alphanum4::set_digit_raw" =>
        LET pos == last'.args[1]
            mask == last'.args[2]
        IN  /\ last'.res = "Ok"
            /\ pos \in 0 .. 3 =>
                    /\ Buffer'[2 * pos] + 256 * Buffer'[2 * pos + 1] = mask
                    /\ \A i \in (0 .. 7) \ {2 * pos, 2 * pos + 1} : Buffer'[i] = Buffer[i]
            /\ pos > 3 => Buffer' = Buffer

\* C15: for pos in 0 .. 3 and every 16-bit mask, set_digit_raw(pos, mask) makes
\* buffer[2*pos] + 256*buffer[2*pos+1] equal mask and leaves the other six bytes
\* unchanged; for pos > 3 it leaves all 8 bytes unchanged and does not fail.
C15_RawDigitRoundTrip == [][C15_Step]_vars

\* The mask 0xBFFF was written at position 3 of the mixed buffer.
C15_Witness ==
    /\ OnDev("alphanum4", {"Alphanum4::set_digit_raw"}) /\ last.args = <<3, 49151>>
    /\ DigitAt(Buffer, 3) = 49151 /\ Buffer[0] = 37 /\ Buffer[5] = 222

(* C16 *)

C16_Step ==
    dev = "alphanum4" /\ last'.op = "Alphanum4::set_decimal" =>
        LET pos == last'.args[1]
            decimal == last'.args[2]
        IN  /\ last'.res = "Ok"
            /\ pos \in 0 .. 3 =>
                    /\ Bit(Buffer'[2 * pos + 1], 6) = (IF decimal THEN 1 ELSE 0)
                    /\ \A n \in (0 .. 7) \ {6} :
                            Bit(Buffer'[2 * pos + 1], n) = Bit(Buffer[2 * pos + 1], n)
                    /\ \A i \in (0 .. 7) \ {2 * pos + 1} : Buffer'[i] = Buffer[i]
            /\ pos > 3 => Buffer' = Buffer
            /\ Alphanum4_set_decimal(alphanum4', pos, decimal).self = alphanum4'

\* C16: for pos in 0 .. 3 set_decimal(pos, true) sets bit 6 of buffer[2*pos+1] and
\* set_decimal(pos, false) clears it, every other bit and byte staying as it was;
\* a second identical call changes nothing; for pos > 3 nothing changes and the
\* call does not fail.
C16_DecimalBitOnly == [][C16_Step]_vars

\* The decimal point of position 1 of the mixed buffer was set: 148 became 212.
C16_Witness ==
    /\ OnDev("alphanum4", {"Alphanum4::set_decimal"}) /\ last.args = <<1, TRUE>>
    /\ Buffer[3] = 212 /\ Buffer[2] = 111 /\ Buffer[1] = 74

(* C17 *)

\* The character has a glyph in the table.
Supported(c) == Alphanum4_digit_value_get(c) # {}

\* The glyph mask of a supported character.
Glyph(c) == CHOOSE m \in Alphanum4_digit_value_get(c) : TRUE

C17_Table ==
    /\ \A c \in CharArgs : Supported(c) <=> c \in 32 .. 126
    /\ Alphanum4_digit_value_get(65) = {247}
    /\ Alphanum4_digit_value_get(32) = {0}

C17_Step ==
    dev = "alphanum4" /\ last'.op = "Alphanum4::set_digit" =>
        /\ last'.res = "Ok" <=> last'.args[2] \in 32 .. 126
        /\ last'.res # "Ok" => last'.res = "Panic" /\ Buffer' = Buffer

\* C17: set_digit(pos, c, decimal) succeeds for every character code 32 .. 126
\* (each has a table entry; 'A' is 0b0000000011110111 and ' ' is 0) and fails for
\* every character outside that range, leaving the segment buffer unchanged.
C17_SupportedCharacters == [](C17_Table) /\ [][C17_Step]_vars

\* set_digit failed on DEL (127) at position 0 of the mixed buffer.
C17_Witness ==
    /\ OnDev("alphanum4", {"Alphanum4::set_digit"}) /\ last.args = <<0, 127, TRUE>>
    /\ last.res = "Panic" /\ Buffer[0] = 37 /\ Buffer[1] = 74

(* C18 *)

C18_Table == \A k \in DOMAIN DIGIT_VALUES : DIGIT_VALUES[k][2] \in 0 .. 16383

C18_Step ==
    dev = "alphanum4" /\ last'.op = "Alphanum4::set_digit"
        /\ last'.args[1] \in 0 .. 3 /\ last'.args[2] \in 32 .. 126 =>
        DigitAt(Buffer', last'.args[1]) =
            Glyph(last'.args[2]) + (IF last'.args[3] THEN 16384 ELSE 0)

\* C18: for pos in 0 .. 3 and every character code 32 .. 126, after
\* set_digit(pos, c, decimal) the 16-bit value at pos is the glyph mask of c with
\* bit 14 set iff decimal is true; no entry of the glyph table uses bit 14 or 15.
C18_GlyphWithDecimal == [](C18_Table) /\ [][C18_Step]_vars

\* 'A' with its decimal point was written at position 3 of the full buffer.
C18_Witness ==
    /\ OnDev("alphanum4", {"Alphanum4::set_digit"}) /\ last.args = <<3, 65, TRUE>>
    /\ DigitAt(Buffer, 3) = 247 + 16384 /\ Buffer[0] = 255

(* C19 *)

\* Every character of the text has a glyph.
SupportedText(value) == \A k \in DOMAIN value : Supported(value[k])

C19_Step ==
    dev = "alphanum4" /\ last'.op = "Alphanum4::print_str" /\ ~last'.args[2]
        /\ Len(last'.args[1]) <= 4 /\ SupportedText(last'.args[1]) =>
        LET value == last'.args[1]
            n == Len(value)
        IN  /\ last'.res = "Ok"
            /\ \A i \in 0 .. n - 1 : DigitAt(Buffer', i) = Glyph(value[i + 1])
            /\ SamePositions(Buffer', Buffer, n .. 3)

\* C19: for a text of n <= 4 supported characters print_str(text, false) stores
\* the glyph of character i, decimal bit cleared, at position i for each i < n
\* and leaves positions n .. 3 as they were.
C19_PrintLeftJustified == [][C19_Step]_vars

\* "Hi" was printed from the left on the mixed buffer.
C19_Witness ==
    /\ OnDev("alphanum4", {"Alphanum4::print_str"}) /\ last.args = <<<<72, 105>>, FALSE, TRUE>>
    /\ DigitAt(Buffer, 0) = 246 /\ DigitAt(Buffer, 1) = 4096
    /\ Buffer[4] = 185 /\ Buffer[7] = 40

(* C20 *)

C20_Step ==
    dev = "alphanum4" /\ last'.op = "Alphanum4::print_str" /\ last'.args[2]
        /\ Len(last'.args[1]) \in 1 .. 4 /\ SupportedText(last'.args[1]) =>
        LET value == last'.args[1]
            n == Len(value)
        IN  /\ last'.res = "Ok"
            /\ \A i \in 0 .. n - 1 : DigitAt(Buffer', (4 - n) + i) = Glyph(value[i + 1])
            /\ SamePositions(Buffer', Buffer, 0 .. 3 - n)

\* C20: for a text of n supported characters, 1 <= n <= 4, print_str(text, true)
\* stores the glyph of character i at position (4 - n) + i, the last character at
\* position 3, and leaves positions 0 .. 3 - n unchanged.
C20_PrintRightJustified == [][C20_Step]_vars

\* "Hi" was printed from the right on the mixed buffer.
C20_Witness ==
    /\ OnDev("alphanum4", {"Alphanum4::print_str"}) /\ last.args = <<<<72, 105>>, TRUE, TRUE>>
    /\ DigitAt(Buffer, 2) = 246 /\ DigitAt(Buffer, 3) = 4096
    /\ Buffer[0] = 37 /\ Buffer[3] = 148

(* C21 *)

C21_Step ==
    dev = "alphanum4" /\ last'.op = "Alphanum4::print_str"
        /\ Len(last'.args[1]) > 4 /\ SupportedText(last'.args[1]) =>
        LET value == last'.args[1]
        IN  /\ last'.res = "Ok"
            /\ DOMAIN Buffer' = 0 .. 7
            /\ \A p \in 0 .. 3 :
                    DigitAt(Buffer', p) \in
                        {DigitAt(Buffer, p)} \cup {Glyph(value[k]) : k \in DOMAIN value}

\* C21: for every text of more than 4 supported characters print_str(text,
\* justify_right) does not fail, for either value of justify_right; the characters
\* that fall outside positions 0 .. 3 are ignored and only the four positions of
\* the buffer are written.
C21_LongTextDoesNotFail == [][C21_Step]_vars

(* C22 *)

\* The display controller.
Controller == alphanum4.ht16k33

WriteDisplayOps == {"HT16K33::write_display", "Alphanum4::show"}

\* The block write of the segment buffer buf.
BufferWrite(buf) == I2cBlockWrite(0, [k \in 1 .. 8 |-> buf[k - 1]], TRUE)

\* What the bus sees in a setup of controller h that it answers without a failure.
SetupSequence(h) ==
    <<I2cOpen(TRUE), I2cAddress(112, TRUE), I2cBlockWrite(33, <<>>, TRUE),
      I2cBlockWrite(BitOr(129, h.blink_frequency), <<>>, TRUE),
      I2cBlockWrite(BitOr(224, h.brightness), <<>>, TRUE)>>

C22_Step ==
    dev = "alphanum4" /\ last'.op \in WriteDisplayOps
        /\ ~Controller.simulation /\ ~hw_fault' =>
        /\ last'.res = "Ok"
        /\ last'.io = (IF Controller.is_setup THEN <<>> ELSE SetupSequence(Controller))
                        \o <<BufferWrite(Controller.buffer)>>

\* C22: on a non-simulated driver whose bus calls succeed, the write_display()
\* that finds the driver not set up (the first one) makes the bus see, in this
\* order, open, address 0x70, the oscillator command 0x21, the blink command
\* 0x81 | blink_frequency, the brightness command 0xE0 | brightness and only then
\* the buffer block write; every later write_display() issues only the buffer
\* block write.
C22_SetupBeforeFirstWrite == [][C22_Step]_vars

\* A second write_display after the glyph 0x1201 was put at position 0: the bus
\* was opened by the first and sees the block write only.
C22_Witness ==
    /\ OnDev("alphanum4", {"HT16K33::write_display"}) /\ ~Controller.simulation
    /\ ~hw_fault /\ hw.i2c_got /\ hw.oscillator
    /\ last.io = <<I2cBlockWrite(0, <<1, 18, 0, 0, 0, 0, 0, 0>>, TRUE)>>

(* C23 *)

LegalBlinkCodes == {0, 2, 4, 6}

C23_Legal == Controller.blink_frequency \in LegalBlinkCodes

C23_Step ==
    dev = "alphanum4" /\ last'.op = "HT16K33::set_blink" =>
        LET freq == last'.args[1]
        IN  IF freq \in LegalBlinkCodes
            THEN /\ Controller'.blink_frequency = freq
                 /\ \A k \in DOMAIN last'.io :
                        last'.io[k][1] = "i2c_block_write" => last'.io[k][2] = BitOr(129, freq)
            ELSE /\ last'.res # "Ok"
                 /\ last'.io = <<>>
                 /\ Controller'.blink_frequency = Controller.blink_frequency

\* C23: set_blink(freq) accepts only the codes 0x00, 0x02, 0x04 and 0x06: for one
\* of them it stores it in blink_frequency and the command byte it writes is
\* 0x80 | 0x01 | freq; for any other value it fails, issues no bus command and
\* leaves blink_frequency unchanged, so that blink_frequency is one of the four
\* codes in every reachable state.
C23_BlinkValidated == [](C23_Legal) /\ [][C23_Step]_vars

(* C24 *)

C24_Range ==
    /\ Controller.brightness \in 0 .. 15
    /\ last.op = "new" => Controller.brightness = 15

C24_Step ==
    dev = "alphanum4" /\ last'.op = "HT16K33::set_brightness" =>
        LET level == last'.args[1]
        IN  IF level \in 0 .. 15
            THEN /\ Controller'.brightness = level
                 /\ \A k \in DOMAIN last'.io :
                        last'.io[k] \in {I2cBlockWrite(BitOr(224, level), <<>>, ok) : ok \in BOOLEAN}
                 /\ last'.res = "Ok" /\ ~Controller.simulation =>
                        last'.io = <<I2cBlockWrite(BitOr(224, level), <<>>, TRUE)>>
            ELSE /\ last'.res = "Panic"
                 /\ last'.io = <<>>
                 /\ Controller' = Controller

\* C24: set_brightness(level) with level in 0 .. 15 stores level, and the command
\* byte it writes is 0xE0 | level; with level > 15 it fails before it changes
\* anything (the stored brightness is unchanged, no bus command); the stored
\* brightness is in 0 .. 15 in every reachable state, and 15 after construction.
C24_BrightnessValidated == [](C24_Range) /\ [][C24_Step]_vars

\* set_brightness(16) was refused on a physical driver whose brightness an
\* earlier call had set to 0.
C24_Witness ==
    /\ OnDev("alphanum4", {"HT16K33::set_brightness"}) /\ last.args = <<16>>
    /\ last.res = "Panic" /\ Controller.brightness = 0
    /\ ~Controller.simulation /\ Controller.i2c

(* C25 *)

\* The block writes with command byte 0 among the calls io.
DataWrites(io) == {k \in DOMAIN io : io[k][1] = "i2c_block_write" /\ io[k][2] = 0}

C25_Step ==
    dev = "alphanum4" /\ last'.op \in WriteDisplayOps
        /\ ~Controller.simulation /\ last'.res = "Ok" =>
        /\ DataWrites(last'.io) = {Len(last'.io)}
        /\ last'.io[Len(last'.io)] = <<"i2c_block_write", 0,
                <<Buffer[0], Buffer[1], Buffer[2], Buffer[3],
                  Buffer[4], Buffer[5], Buffer[6], Buffer[7]>>, TRUE>>
        /\ Buffer' = Buffer
        /\ Controller'.blink_frequency = Controller.blink_frequency
        /\ Controller'.brightness = Controller.brightness

\* C25: every successful write_display() and Alphanum4 show() in hardware mode
\* issues exactly one block write with command byte 0, whose payload is the 8
\* bytes of the segment buffer as they are at the call, in index order, and
\* leaves the buffer, blink_frequency and brightness unchanged.
C25_WritesWholeBuffer == [][C25_Step]_vars

\* show() sent the buffer that holds 0x1201 with the decimal point at position 3.
C25_Witness ==
    /\ OnDev("alphanum4", {"Alphanum4::show"}) /\ ~Controller.simulation
    /\ last.res = "Ok"
    /\ last.io[Len(last.io)] = I2cBlockWrite(0, <<0, 0, 0, 0, 0, 0, 1, 82>>, TRUE)
    /\ Buffer[6] = 1 /\ Buffer[7] = 82

(* C26 *)

\* The command byte that set_blink / set_brightness with argument a writes.
CommandByte(op, a) == IF op = "HT16K33::set_blink" THEN BitOr(129, a) ELSE BitOr(224, a)

C26_Case ==
    /\ dev = "alphanum4" /\ last'.op \in {"HT16K33::set_blink", "HT16K33::set_brightness"}
    /\ last'.op = "HT16K33::set_blink" => last'.args[1] \in LegalBlinkCodes
    /\ last'.op = "HT16K33::set_brightness" => last'.args[1] \in 0 .. 15
    /\ last.op = "new" /\ ~Controller.simulation /\ ~Controller.is_setup /\ ~Controller.i2c

C26_Step ==
    C26_Case =>
        /\ last'.res # "Panic"
        /\ ~hw_fault' =>
            /\ last'.res = "Ok"
            /\ Controller'.is_setup /\ Controller'.i2c
            /\ last'.io # <<>>
            /\ last'.io[1] = I2cOpen(TRUE)
            /\ last'.io[Len(last'.io)] =
                    I2cBlockWrite(CommandByte(last'.op, last'.args[1]), <<>>, TRUE)

\* C26: set_blink(f) and set_brightness(b) with legal arguments, called on a
\* non-simulated driver on which no other operation has run (is_setup false, bus
\* not opened), perform the lazy setup themselves and then write their command
\* byte; they do not fail or abort because the bus has not been opened.
C26_SettersSetUpLazily == [][C26_Step]_vars

(* C27 *)

AllLights == {"red", "green", "blue"}

C27_Constructed ==
    last.op = "new" => \A f \in AllLights : ~lights[f].simulation /\ ~lights[f].state

\* The state that a call on one light leaves in it.
C27_StateAfter(op, args, before) ==
    CASE op = "Light::on" -> TRUE
      [] op = "Light::off" -> FALSE
      [] op = "Light::write" -> args[2]
      [] OTHER -> ~before

C27_Step ==
    dev = "lights" =>
        /\ last'.op \in {"Light::on", "Light::off", "Light::write", "Light::toggle"} =>
            LET f == last'.args[1]
            IN  /\ lights'[f].state = C27_StateAfter(last'.op, last'.args, lights[f].state)
                /\ \A g \in AllLights \ {f} : lights'[g].state = lights[g].state
                /\ last'.op = "Light::toggle" =>
                        Light_toggle(lights'[f], {}).self.state = lights[f].state
        /\ last'.op = "Lights::rgb" /\ last'.res = "Ok" =>
            /\ lights'.red.state = last'.args[1]
            /\ lights'.green.state = last'.args[2]
            /\ lights'.blue.state = last'.args[3]
        /\ last'.op = "Lights::all" /\ last'.res = "Ok" =>
            \A f \in AllLights : lights'[f].state = last'.args[1]
        /\ last'.op = "Lights::enable_simulation" =>
            \A f \in AllLights : lights'[f].simulation /\ lights'[f].state = lights[f].state

\* C27: the state field of a Light is true after on(), false after off(), the
\* argument after write(s) and the negation of the previous state after toggle()
\* (two toggles restore it); Lights.rgb(r, g, b) sets red, green and blue to r, g
\* and b, each on its own, and Lights.all(s) sets all three to s;
\* enable_simulation() sets the simulation flag of the three lights, which is
\* false after construction.
C27_LightStates == [](C27_Constructed) /\ [][C27_Step]_vars

\* The red light, on and driven, was toggled off while green stayed on.
C27_Witness ==
    /\ OnDev("lights", {"Light::toggle"}) /\ last.io = <<PinWrite(GPIO_LIGHT_RED, Low)>>
    /\ ~lights.red.state /\ lights.green.state /\ ~lights.blue.state

(* C28 *)

AllButtons == {"a", "b", "c"}

C28_Constructed ==
    last.op = "new" => \A f \in AllButtons : ~buttons[f].state /\ ~buttons[f].is_setup

C28_Step ==
    dev = "buttons" /\ last'.op = "Button::is_pressed" =>
        LET f == last'.args[1]
            before == buttons[f]
            after == buttons'[f]
        IN  /\ before.simulation =>
                /\ last'.res = "Ok" /\ last'.io = <<>>
                /\ last'.val = BoolVal(before.state)
                /\ after.state = before.state
            /\ ~before.simulation /\ last'.res = "Ok" =>
                LET read == last'.io[Len(last'.io)]
                IN  /\ read[1] = "read" /\ read[2] = before.bcm_pin
                    /\ after.state = (read[3] = Low)
                    /\ last'.val = BoolVal(read[3] = Low)
            /\ last'.res = "Ok" => after.is_setup
            /\ \A g \in AllButtons \ {f} : buttons'[g] = buttons[g]

\* C28: is_pressed() in simulation mode returns the stored state (false after
\* construction) and never changes it; in hardware mode it stores and returns
\* true iff the input line reads low; in both modes a first call that returns
\* has set is_setup to true.
C28_PressedIsLineLow == [](C28_Constructed) /\ [][C28_Step]_vars

\* Button a was read pressed on its line, then simulation was enabled and
\* is_pressed() returned the stored true without a read.
C28_Witness ==
    /\ OnDev("buttons", {"Button::is_pressed"}) /\ last.args = <<"a">>
    /\ buttons.a.simulation /\ buttons.a.pin /\ buttons.a.state
    /\ last.val = "true" /\ last.io = <<>>

(* C29 *)

C29_Case ==
    /\ dev = "buzzer"
    /\ \/ last'.op = "Buzzer::note" /\ last'.args[1] <= 0
       \/ last'.op = "Buzzer::midi_note" /\ last'.args[1] = 0

C29_Step ==
    C29_Case =>
        /\ last'.res = "Panic"
        /\ last'.io = <<>>
        /\ buzzer'.is_setup = buzzer.is_setup
        /\ buzzer' = buzzer

\* C29: note(frequency, duration) with frequency <= 0 and midi_note(0, duration)
\* fail before any setup or PWM call is made: is_setup keeps the value it had
\* and no call into the pin occurs, in simulation and in hardware mode.
C29_InvalidNoteRejected == [][C29_Step]_vars

\* note() with a frequency of 0 was refused on a physical buzzer that no
\* operation had set up: its line was not asked for.
C29_Witness ==
    /\ OnDev("buzzer", {"Buzzer::note"}) /\ last.args[1] = 0 /\ last.res = "Panic"
    /\ ~buzzer.simulation /\ ~buzzer.is_setup /\ GPIO_BUZZER \notin hw.tried

(* C30 *)

\* The positions of io that are writes to a line, and those to chip-select.
LineWrites(io) == {k \in DOMAIN io : io[k][1] = "write"}

ChipSelectWrites(io) == {k \in LineWrites(io) : io[k][2] = GPIO_CS}

\* The clock pulses of a frame: 32 of the start frame, 8 for each of the 4 bytes
\* of the 7 pixels, 36 of the end frame.
FramePulses == 32 + 8 * 4 * NUM_PIXELS + 36

C30_Frame ==
    dev = "apa102" =>
        LET io == last.io
            writes == LineWrites(io)
            cs == ChipSelectWrites(io)
        IN  /\ writes # {} =>
                \E lo \in cs :
                    /\ io[lo] = PinWrite(GPIO_CS, Low)
                    /\ \A k \in writes : k >= lo
                    /\ \A hi \in cs \ {lo} :
                            /\ io[hi] = PinWrite(GPIO_CS, High)
                            /\ \A k \in writes : k <= hi
            /\ last.op \in {"APA102::show", "APA102::exit"} /\ ~apa102.simulation
                    /\ last.res = "Ok" =>
                /\ Cardinality(cs) = 2
                /\ io[Len(io)] = PinWrite(GPIO_CS, High)
                /\ Cardinality({k \in writes : io[k] = PinWrite(GPIO_CLK, High)}) = FramePulses
                /\ WholePulses(io)

\* C30: during show() in hardware mode chip-select is driven low before the first
\* clock pulse of the start frame and back high only after the last clock pulse
\* of the end frame; no clock pulse or data-line write happens while chip-select
\* is inactive, and chip-select is inactive again when show() returns Ok.
C30_ChipSelectBracketsFrame == C30_Frame

\* A show() on a chain that was set up before: its first call drives chip-select
\* low and its last, after 292 clock pulses, drives it high.
C30_Witness ==
    /\ OnDev("apa102", {"APA102::show"}) /\ ~apa102.simulation /\ last.res = "Ok"
    /\ last.io[1] = PinWrite(GPIO_CS, Low)
    /\ last.io[Len(last.io)] = PinWrite(GPIO_CS, High)
    /\ WritesTo(last.io, {GPIO_CLK})[2 * FramePulses] = PinWrite(GPIO_CLK, Low)

(* C31 *)

C31_Byte ==
    /\ OnDev("apa102", {"APA102::write_byte"}) /\ ~apa102.simulation =>
        LET io == last.io
            byte == last.args[1]
        IN  /\ last.res = "Ok"
            /\ Len(io) = 24
            /\ \A i \in 0 .. 7 :
                    /\ io[3 * i + 1][1] = "write" /\ io[3 * i + 1][2] = GPIO_DAT
                    /\ io[3 * i + 1][3] \in {Low, High}
                    /\ io[3 * i + 2] = PinWrite(GPIO_CLK, High)
                    /\ io[3 * i + 3] = PinWrite(GPIO_CLK, Low)
            /\ 128 * io[1][3] + 64 * io[4][3] + 32 * io[7][3] + 16 * io[10][3]
                + 8 * io[13][3] + 4 * io[16][3] + 2 * io[19][3] + io[22][3] = byte
    /\ OnDev("apa102", {"APA102::get_bit_at"}) /\ last.args[2] \in 0 .. 7 =>
        /\ last.res = "Ok"
        /\ last.val = BoolVal(last.args[1] % (2 ^ (last.args[2] + 1)) >= 2 ^ last.args[2])

\* C31: for every byte 0 .. 255 write_byte in hardware mode produces exactly 8
\* clock pulses (clock high, then low), sets the data line before each rising
\* edge, and the 8 data levels at the rising edges, read most significant bit
\* first, spell the byte; get_bit_at(byte, n) is true iff bit n (0 the least
\* significant) of byte is 1, for n in 0 .. 7.
C31_ByteOnTheLines == C31_Byte

\* The byte 0b10100110 was written: data high, low, high, low, low, high, high, low.
C31_Witness ==
    /\ OnDev("apa102", {"APA102::write_byte"}) /\ last.args = <<166>>
    /\ ~apa102.simulation /\ apa102.pin_dat /\ apa102.pin_clk
    /\ last.io[1] = PinWrite(GPIO_DAT, High) /\ last.io[4] = PinWrite(GPIO_DAT, Low)
    /\ last.io[22] = PinWrite(GPIO_DAT, Low) /\ last.io[24] = PinWrite(GPIO_CLK, Low)

(* C32 *)

\* The simulation flags of all the driver objects, in the order of IsSetupFlags.
SimulationFlags ==
    <<apa102.simulation, alphanum4.ht16k33.simulation, lights.red.simulation,
      lights.green.simulation, lights.blue.simulation, buttons.a.simulation,
      buttons.b.simulation, buttons.c.simulation, buzzer.simulation>>

\* Every hardware handle of each driver object is present, in the same order.
HandlesPresent ==
    <<apa102.pin_dat /\ apa102.pin_clk /\ apa102.pin_cs, alphanum4.ht16k33.i2c,
      lights.red.pin, lights.green.pin, lights.blue.pin,
      buttons.a.pin, buttons.b.pin, buttons.c.pin, buzzer.pin>>

C32_Handles ==
    \A k \in DOMAIN IsSetupFlags :
        IsSetupFlags[k] /\ ~SimulationFlags[k] => HandlesPresent[k]

C32_Step == \A k \in DOMAIN SimulationFlags : SimulationFlags[k] => SimulationFlags'[k]

\* C32: in every state reachable through the public operations of a driver
\* (enable_simulation of Lights / Buttons at any point included) is_setup = true
\* and simulation = false together imply that every hardware handle of that
\* driver is present; the simulation flag only changes from false to true.
C32_SetUpMeansHandles == [](C32_Handles) /\ [][C32_Step]_vars

\* Button a is set up on its line, not simulated, and holds its handle; the line
\* of button c was refused, which left c neither set up nor with a handle.
C32_Witness ==
    /\ OnDev("buttons", {"Button::is_pressed"}) /\ last.args = <<"a">> /\ last.res = "Ok"
    /\ buttons.a.is_setup /\ ~buttons.a.simulation /\ buttons.a.pin
    /\ GPIO_TOUCH_C \in hw.tried /\ ~buttons.c.is_setup /\ ~buttons.c.pin

(* C33 *)

\* The calls of io on the PWM of the buzzer line and the waits, in order.
PwmCalls(io) == SelectSeq(io, LAMBDA e : e[1] \in {"set_pwm_frequency", "sleep", "clear_pwm"})

C33_Order ==
    dev = "buzzer" /\ ~buzzer.simulation =>
        LET pwm == PwmCalls(last.io)
        IN  /\ last.op \in {"Buzzer::note", "Buzzer::midi_note"} =>
                /\ \A k \in DOMAIN pwm :
                    /\ pwm[k][1] = "set_pwm_frequency" =>
                            k = 1 /\ pwm[k][2] = GPIO_BUZZER /\ pwm[k][4] = 90
                    /\ pwm[k][1] = "sleep" => k = 2 /\ pwm[1][5]
                    /\ pwm[k][1] = "clear_pwm" => k = 3 /\ pwm[1][5]
                /\ last.op = "Buzzer::note" /\ pwm # <<>> => pwm[1][3] = last.args[1]
                /\ last.res = "Ok" =>
                    /\ Len(pwm) = 3
                    /\ pwm[1][1] = "set_pwm_frequency" /\ pwm[1][5]
                    /\ pwm[2] = <<"sleep", last.args[2]>>
                    /\ pwm[3] = <<"clear_pwm", GPIO_BUZZER, TRUE>>
            /\ last.op = "Buzzer::stop" /\ last.res # "Panic" =>
                /\ Len(pwm) = 1
                /\ pwm[1][1] = "clear_pwm" /\ pwm[1][2] = GPIO_BUZZER

\* C33: in hardware mode the pin calls of one note() are, in this order,
\* set-PWM(frequency, duty 0.90), the blocking wait, clear-PWM; when note()
\* returns Ok the PWM was cleared after it was set; clear-PWM is not called when
\* set-PWM failed; stop() issues exactly one clear-PWM and no set-PWM.
C33_PwmSetWaitClear == C33_Order

\* The note A4 (MIDI 69, 440 Hz) was played on a buzzer that was set up before.
C33_Witness ==
    /\ OnDev("buzzer", {"Buzzer::midi_note"}) /\ last.args[1] = 69 /\ last.res = "Ok"
    /\ last.io = <<PwmSet(GPIO_BUZZER, 440000, 90, TRUE), Sleep(500),
                   PwmClear(GPIO_BUZZER, TRUE)>>

(* C34 *)

C34_Step ==
    dev = "alphanum4" /\ last'.op = "Alphanum4::set_digit" /\ last'.args[1] > 3 =>
        /\ Buffer' = Buffer
        /\ last'.args[2] \in 32 .. 126 => last'.res = "Ok"
        /\ last'.args[2] \notin 32 .. 126 => last'.res = "Panic"

\* C34: set_digit looks the character up before it checks the position:
\* set_digit(pos, c, d) with pos > 3 is silently ignored (buffer unchanged, no
\* failure) only when c is a supported character; with pos > 3 and an unsupported
\* c it fails instead of being ignored.
C34_LookupBeforePosition == [][C34_Step]_vars

\* set_digit(4, DEL, false) failed on the mixed buffer, which it left as it was.
C34_Witness ==
    /\ OnDev("alphanum4", {"Alphanum4::set_digit"}) /\ last.args = <<4, 127, FALSE>>
    /\ last.res = "Panic" /\ Buffer[6] = 3 /\ Buffer[7] = 40

(* C35 *)

\* The index (from 1) of the first character of the text that has no glyph.
FirstUnsupported(value) ==
    CHOOSE k \in DOMAIN value :
        /\ value[k] \notin 32 .. 126
        /\ \A m \in 1 .. k - 1 : value[m] \in 32 .. 126

C35_Step ==
    dev = "alphanum4" /\ last'.op = "Alphanum4::print_str"
        /\ (\E k \in DOMAIN last'.args[1] : last'.args[1][k] \notin 32 .. 126) =>
        LET value == last'.args[1]
            k == FirstUnsupported(value)
            start == IF last'.args[2] THEN 4 - StrLen(value) ELSE 0
            \* with overflow checks 4 - value.len() fails before a character is addressed
            reached == ~(last'.args[2] /\ StrLen(value) > 4 /\ last'.args[3])
            written == IF reached THEN {m \in 1 .. k - 1 : start + m - 1 \in 0 .. 3} ELSE {}
        IN  /\ last'.res = "Panic"
            /\ \A m \in written : DigitAt(Buffer', start + m - 1) = Glyph(value[m])
            /\ SamePositions(Buffer', Buffer, (0 .. 3) \ {start + m - 1 : m \in written})

\* C35: print_str is not atomic on failure: when the first unsupported character
\* of the text is at index k, the positions addressed by the k characters before
\* it have already been overwritten with their glyphs when the operation fails,
\* and the positions of the characters from index k on are unchanged.
C35_PrintNotAtomic == [][C35_Step]_vars

\* "TES" DEL was printed from the left on the mixed buffer: T, E and S are in
\* positions 0 .. 2 and position 3 is as it was.
C35_Witness ==
    /\ OnDev("alphanum4", {"Alphanum4::print_str"})
    /\ last.args = <<<<84, 69, 83, 127>>, FALSE, TRUE>> /\ last.res = "Panic"
    /\ DigitAt(Buffer, 0) = 4609 /\ DigitAt(Buffer, 1) = 249 /\ DigitAt(Buffer, 2) = 237
    /\ Buffer[6] = 3 /\ Buffer[7] = 40

====
